---- MODULE Spec2Model ----
(***************************************************************************)
(* Model of the gitcli subprocess execution gateway                        *)
(* (package gitcli, src/unnamed/part_003): the typed-argument command      *)
(* builder, NewCommand, and the cmdReader returned by it (Read, Close,     *)
(* waitCmd), together with the subprocess, its stdout pipe, the bounded    *)
(* stderr capture and the invocation's context.                            *)
(*                                                                         *)
(* Byte strings are TLA+ strings; an error value is a record with a kind   *)
(* field; Nil is Go's nil error.                                           *)
(***************************************************************************)
EXTENDS Integers, Sequences, FiniteSets, TLC

\* ------------------------------------------------------------------ bounds
\* Caller threads that use the reader of the one invocation concurrently.
Threads == {"t1", "t2"}

\* Read/Close calls issued on the reader in one behaviour.
MaxOps == 3

\* Largest len(p) a caller passes to Read.
MaxReadLen == 2

\* ------------------------------------------------------------ error values
Nil == [kind |-> "nil"]

EOF == [kind |-> "io.EOF"]

\* os.ErrClosed, as wrapped by os.File.Read on a closed pipe end.
ErrClosed == [kind |-> "os.ErrClosed"]

CtxCanceled == [kind |-> "context.Canceled"]

CtxDeadlineExceeded == [kind |-> "context.DeadlineExceeded"]

ExitError(code) == [kind |-> "exec.ExitError", code |-> code]

ErrRepoCorrupted(reason) == [kind |-> "ErrRepoCorrupted", Reason |-> reason]

Wrap(cause, msg) == [kind |-> "wrapped", msg |-> msg, cause |-> cause]

\* ---------------------------------------------------------- argument model
FlagArgument(s) == [type |-> "FlagArgument", string |-> s]

SpecSafeValueArgument(s) == [type |-> "SpecSafeValueArgument", string |-> s]

ValueFlagArgument(f, v) == [type |-> "ValueFlagArgument", Flag |-> f, Value |-> v]

ConfigArgument(k, v) == [type |-> "ConfigArgument", Key |-> k, Value |-> v]

\* A nil Argument: an interface value that is none of the four variants.
NilArgument == [type |-> "nil"]

HasPrefix(s, p) == Len(s) >= Len(p) /\ SubSeq(s, 1, Len(p)) = p

\* checkSpecArgSafety is called at part_003:258 but defined elsewhere in the
\* package: a spec beginning with '-' is rejected.
checkSpecArgSafety(spec) ==
    IF HasPrefix(spec, "-")
    THEN [kind |-> "invalid git revision spec", spec |-> spec]
    ELSE Nil

\* Mutant: the default case of the type switch reports no error.
UnknownArgumentType_Nil(arg) == Nil

\* errors.Newf("unknown argument type %T", v)
UnknownArgumentType(arg) == [kind |-> "unknown argument type", type |-> arg.type]

\* The loop of argsFromArguments: one iteration per argument, returning at
\* the first error.
RECURSIVE argsLoop(_, _, _)
argsLoop(args, configFlags, flags) ==
    IF args = <<>>
    THEN [configFlags |-> configFlags, flags |-> flags, err |-> Nil]
    ELSE LET arg == Head(args)
             fail(e) == [configFlags |-> configFlags, flags |-> flags, err |-> e]
         IN  CASE arg.type = "FlagArgument" ->
                    argsLoop(Tail(args), configFlags, Append(flags, arg.string))
               [] arg.type = "SpecSafeValueArgument" ->
                    IF checkSpecArgSafety(arg.string) # Nil
                    THEN fail(checkSpecArgSafety(arg.string))
                    ELSE argsLoop(Tail(args), configFlags, Append(flags, arg.string))
               [] arg.type = "ValueFlagArgument" ->
                    argsLoop(Tail(args), configFlags,
                             Append(flags, arg.Flag \o "=" \o arg.Value))
               [] arg.type = "ConfigArgument" ->
                    argsLoop(Tail(args),
                             configFlags \o <<"-c", arg.Key \o "=" \o arg.Value>>,
                             flags)
               [] OTHER -> fail(UnknownArgumentType(arg))

\* Mutant: tokens are emitted in input order after the subcommand, config
\* flags are not hoisted in front of it.
argsFromArguments_NoHoist(subcommand, args) ==
    LET r == argsLoop(args, <<>>, <<>>)
        RECURSIVE inOrder(_)
        inOrder(as) ==
            IF as = <<>> THEN <<>>
            ELSE LET one == argsLoop(<<Head(as)>>, <<>>, <<>>)
                 IN  one.configFlags \o one.flags \o inOrder(Tail(as))
    IN  IF r.err # Nil
        THEN [args |-> <<>>, err |-> r.err]
        ELSE [args |-> <<subcommand>> \o inOrder(args), err |-> Nil]

\* Mutant: the result of checkSpecArgSafety is ignored.
argsFromArguments_NoCheck(subcommand, args) ==
    LET unchecked(a) == IF a.type = "SpecSafeValueArgument"
                        THEN FlagArgument(a.string) ELSE a
        r == argsLoop([i \in 1..Len(args) |-> unchecked(args[i])], <<>>, <<>>)
    IN  IF r.err # Nil
        THEN [args |-> <<>>, err |-> r.err]
        ELSE [args |-> r.configFlags \o <<subcommand>> \o r.flags, err |-> Nil]

\* Mutant: a config argument becomes the single token "-ckey=value".
argsFromArguments_MergedConfig(subcommand, args) ==
    LET r == argsLoop(args, <<>>, <<>>)
        merged == [k \in 1..(Len(r.configFlags) \div 2) |->
                      r.configFlags[2 * k - 1] \o r.configFlags[2 * k]]
    IN  IF r.err # Nil
        THEN [args |-> <<>>, err |-> r.err]
        ELSE [args |-> merged \o <<subcommand>> \o r.flags, err |-> Nil]

\* argsFromArguments: git [config flags] subcommand [flags], or (nil, err).
argsFromArguments(subcommand, args) ==
    LET r == argsLoop(args, <<>>, <<>>)
    IN  IF r.err # Nil
        THEN [args |-> <<>>, err |-> r.err]
        ELSE [args |-> r.configFlags \o <<subcommand>> \o r.flags, err |-> Nil]

\* ----------------------------------------------------------------- options
\* A nil io.Reader: no stdin given.
NoStdin == "nil"

\* A nil []string: cmd.Env unset, the process inherits the environment.
NilEnv == <<>>

\* os.Environ()
osEnviron == <<"PATH=/usr/bin">>

\* The zero value of commandOpts.
commandOpts == [arguments |-> <<>>, env |-> NilEnv, stdin |-> NoStdin]

WithArguments(args) == [name |-> "WithArguments", args |-> args]

WithStdin(stdin) == [name |-> "WithStdin", stdin |-> stdin]

WithEnv(env) == [name |-> "WithEnv", env |-> env]

\* Mutant: WithArguments appends to the arguments already set.
callOption_Append(optFn, o) ==
    CASE optFn.name = "WithArguments" -> [o EXCEPT !.arguments = @ \o optFn.args]
      [] optFn.name = "WithStdin"     -> [o EXCEPT !.stdin = optFn.stdin]
      [] optFn.name = "WithEnv"       -> [o EXCEPT !.env = optFn.env]

\* optFn(&opts): the assignment the option function makes.
callOption(optFn, o) ==
    CASE optFn.name = "WithArguments" -> [o EXCEPT !.arguments = optFn.args]
      [] optFn.name = "WithStdin"     -> [o EXCEPT !.stdin = optFn.stdin]
      [] optFn.name = "WithEnv"       -> [o EXCEPT !.env = optFn.env]

\* The loop of optsFromFuncs: the option functions applied in order.
RECURSIVE optsLoop(_, _)
optsLoop(fns, o) ==
    IF fns = <<>> THEN o ELSE optsLoop(Tail(fns), callOption(Head(fns), o))

optsFromFuncs(fns) == optsLoop(fns, commandOpts)

\* ------------------------------------------------- bounded stderr capture
maxStderrCapture == 1024

\* Mutant: everything is written through, whatever N says.
limitWriterWrite_NoLimit(buf, N, p) ==
    [buf |-> buf \o p, N |-> N - Len(p), n |-> Len(p), err |-> Nil]

\* limitWriter.Write on the writer state (buf = the bytes.Buffer W, N = bytes
\* remaining): the new state and the (n, err) it returns.
limitWriterWrite(buf, N, p) ==
    IF N <= 0
    THEN [buf |-> buf, N |-> N, n |-> Len(p), err |-> Nil]
    ELSE LET origLen == Len(p)
             q  == IF Len(p) > N THEN SubSeq(p, 1, N) ELSE p
             n  == Len(q)
             N2 == N - n
         IN  [buf |-> buf \o q, N |-> N2,
              n |-> IF N2 <= 0 THEN origLen ELSE n, err |-> Nil]

\* ---------------------------------------------------- corruption heuristic
\* '^' of a POSIX regexp matches at the beginning of the text and after
\* every newline.
MatchesAtLineStart(s, pat) ==
    \E i \in 1..Len(s) :
        /\ i = 1 \/ SubSeq(s, i - 1, i - 1) = "\n"
        /\ i + Len(pat) - 1 <= Len(s)
        /\ SubSeq(s, i, i + Len(pat) - 1) = pat

objectOrPackFileCorruptionRegex(s) ==
    \/ MatchesAtLineStart(s, "error: Could not read ")
    \/ MatchesAtLineStart(s, "error: packfile ")

commitGraphCorruptionRegex(s) ==
    MatchesAtLineStart(s,
        "fatal: commit-graph requires overflow generation data but has none")

\* Mutant: the commit-graph pattern is not consulted.
stdErrIndicatesCorruption_PackOnly(stderr) ==
    objectOrPackFileCorruptionRegex(stderr)

stdErrIndicatesCorruption(stderr) ==
    objectOrPackFileCorruptionRegex(stderr) \/ commitGraphCorruptionRegex(stderr)

\* ------------------------------------------------------ corruption marker
gitConfigMaybeCorrupt == "sourcegraph.maybeCorruptRepo"

Digit(d) == SubSeq("0123456789", d + 1, d + 1)

\* strconv.FormatInt(n, 10)
RECURSIVE FormatInt(_)
FormatInt(n) ==
    IF n < 0 THEN "-" \o FormatInt(-n)
    ELSE IF n < 10 THEN Digit(n)
    ELSE FormatInt(n \div 10) \o Digit(n % 10)

\* Mutant: the marker is written under the context of the command.
markerCtxErr_Caller(callerCtxErr) == callerCtxErr

\* Err() of the context the marker is written under, context.Background(),
\* given Err() of the context of the command: never done.
markerCtxErr(callerCtxErr) == Nil

\* Mutant: a failed marker write makes the check report no corruption.
checkMaybeCorruptRepo_FailOnSetErr(stderr, setErr) ==
    stdErrIndicatesCorruption(stderr) /\ setErr = Nil

\* The result of checkMaybeCorruptRepo, given the error of the config write
\* it issues when stderr matches: the write error is logged and dropped.
checkMaybeCorruptRepo(stderr, setErr) == stdErrIndicatesCorruption(stderr)

\* ------------------------------------------------------- failure outcomes
CommandFailedError(inner, args, stderr, exitStatus) ==
    [kind |-> "CommandFailedError", Inner |-> inner, args |-> args,
     Stderr |-> stderr, ExitStatus |-> exitStatus]

\* Mutant: CommandFailedError has no Unwrap method.
Unwrap_NoInner(e) == IF e.kind = "wrapped" THEN e.cause ELSE Nil

\* errors.Unwrap: CommandFailedError.Unwrap returns Inner, an error made by
\* errors.Wrap unwraps to its cause, any other error to nil.
Unwrap(e) ==
    IF e.kind = "CommandFailedError" THEN e.Inner
    ELSE IF e.kind = "wrapped" THEN e.cause
    ELSE Nil

\* Mutant: the context is not consulted.
commandFailedError_NoCtx(ctxErrNow, err, args, stderr, exitStatus) ==
    CommandFailedError(err, args, stderr, exitStatus)

\* Mutant: the error carries the subcommand only and a zero exit status.
commandFailedError_Lossy(ctxErrNow, err, args, stderr, exitStatus) ==
    IF ctxErrNow # Nil THEN ctxErrNow
    ELSE CommandFailedError(err, <<>>, stderr, 0)

\* commandFailedError(ctx, err, cmd, stderr), with ctx.Err(), cmd's Args and
\* cmd's ProcessState.ExitCode() passed as values.
commandFailedError(ctxErrNow, err, args, stderr, exitStatus) ==
    IF ctxErrNow # Nil THEN ctxErrNow
    ELSE CommandFailedError(err, args, stderr, exitStatus)

\* Mutant: a failure without corruption match is swallowed.
classify_Swallow(err, corrupt, ctxErrNow, args, stderr, exitStatus) ==
    IF err = Nil THEN Nil
    ELSE IF corrupt THEN ErrRepoCorrupted(stderr)
    ELSE Nil

\* The classification inside waitCmd's once-body: err is what cmd.Wait
\* returned, corrupt is the result of checkMaybeCorruptRepo on the captured
\* stderr.
classify(err, corrupt, ctxErrNow, args, stderr, exitStatus) ==
    IF err = Nil THEN Nil
    ELSE IF corrupt THEN ErrRepoCorrupted(stderr)
    ELSE commandFailedError(ctxErrNow, err, args, stderr, exitStatus)

\* ----------------------------------------------------------- observability
\* Durations are counted in milliseconds.
Millisecond == 1

Second == 1000 * Millisecond

Minute == 60 * Second

\* shortGitCommandSlow: the threshold for regarding a git command as slow.
shortGitCommandSlow(sub) ==
    IF sub = "archive" THEN 1 * Minute
    ELSE IF sub \in {"blame", "ls-tree", "log", "show"} THEN 5 * Second
    ELSE IF sub = "fetch" THEN 10 * Second
    ELSE 2500 * Millisecond

\* Mutant: a command that takes exactly its threshold counts as slow.
isSlow_AtLeast(duration, sub) == duration >= shortGitCommandSlow(sub)

\* isSlow := duration > shortGitCommandSlow(rc.subcommand)
isSlow(duration, sub) == duration > shortGitCommandSlow(sub)

\* Memory sizes are counted in bytes.
KiB == 1024

MiB == 1024 * KiB

\* An int64 (Maxrss, bytesize.Bytes) is kept in two's complement as four
\* 16-bit limbs, the most significant first.
Limb == 65536

\* The int64 of a number n with 0 <= n < 2^31.
Int64(n) == <<0, 0, n \div Limb, n % Limb>>

\* x < 0
IsNegative64(x) == x[1] >= Limb \div 2

\* a < b on int64
Less64(a, b) ==
    LET key(x) == <<(x[1] + Limb \div 2) % Limb, x[2], x[3], x[4]>>
    IN  \E i \in 1..4 :
            /\ key(a)[i] < key(b)[i]
            /\ \A j \in 1..(i - 1) : key(a)[j] = key(b)[j]

\* x + 1 on int64
Inc64(x) ==
    [i \in 1..4 |->
        (x[i] + (IF \A j \in (i + 1)..4 : x[j] = Limb - 1 THEN 1 ELSE 0)) % Limb]

\* x * bytesize.KiB on int64: the ten highest bits are lost.
mulKiB(x) ==
    [i \in 1..4 |->
        (x[i] % (Limb \div KiB)) * KiB
            + (IF i < 4 THEN x[i + 1] \div (Limb \div KiB) ELSE 0)]

\* x / bytesize.KiB on int64: the quotient truncated towards zero.
divKiB(x) ==
    LET floor == [i \in 1..4 |->
                    x[i] \div KiB
                        + (IF i > 1 THEN x[i - 1] % KiB
                           ELSE IF IsNegative64(x) THEN KiB - 1 ELSE 0)
                          * (Limb \div KiB)]
    IN  IF IsNegative64(x) /\ x[4] % KiB # 0 THEN Inc64(floor) ELSE floor

\* Mutant: maxrss is taken for KiB on every platform.
rssToByteSize_AlwaysKiB(rss, os) == mulKiB(rss)

\* rssToByteSize: darwin reports maxrss in bytes, Linux in KiB.
rssToByteSize(rss, os) == IF os = "darwin" THEN rss ELSE mulKiB(rss)

\* The threshold of the comparison that is commented out.
highMemoryUsageThreshold == 500 * MiB

\* Mutant: the comparison with the threshold is in force.
isHighMem_Threshold(memUsage) == Less64(Int64(highMemoryUsageThreshold), memUsage)

\* isHighMem := false // memUsage > highMemoryUsageThreshold
isHighMem(memUsage) == FALSE

\* An actor: its Internal flag and its UID.
Actor(internal, uid) == [Internal |-> internal, UID |-> uid]

\* Mutant: every event gets the rate of an internal caller.
HoneySampleRate_Flat(cmd, a) == 16

\* HoneySampleRate
HoneySampleRate(cmd, a) ==
    LET internal == a.Internal \/ a.UID = 0
    IN  IF cmd \in {"rev-parse", "rev-list", "config"} /\ internal THEN 2^14
        ELSE IF internal THEN 16
        ELSE 8

\* Mutant: the event is built only when honey is enabled.
eventBuilt_EnabledOnly(enabled, slow, highMem) == enabled

\* The condition under which rc.trace builds the event:
\* honey.Enabled() || isSlow || isHighMem.
eventBuilt(enabled, slow, highMem) == enabled \/ slow \/ highMem

\* The condition under which an event that was built is sent: honey.Enabled().
eventSent(enabled) == enabled

\* No event was built.
NoEvent == [name |-> "none"]

\* honey.NewEvent("gitserver-exec") with the sample rate and the fields
\* rc.trace sets (the error field is Nil when rc.err is nil).
Event(rate, cmd, args, uid, exitStatus, err, durationMs, maxrssKiB) ==
    [name |-> "gitserver-exec", sampleRate |-> rate, cmd |-> cmd, args |-> args,
     actor |-> uid, exit_status |-> exitStatus, error |-> err,
     cmd_duration_ms |-> durationMs, cmd_ru_maxrss_kib |-> maxrssKiB]

\* Mutant: the gauge is left as it is.
gaugeDec_Noop(gauge, label) == gauge

\* execRunning.WithLabelValues(label).Inc() and .Dec()
gaugeInc(gauge, label) == [gauge EXCEPT ![label] = @ + 1]

gaugeDec(gauge, label) == [gauge EXCEPT ![label] = @ - 1]

\* ------------------------------------------------------------------ state
VARIABLES
    \* the call under consideration: NewCommand(ctx, subcommand, optFns...);
    \* arguments is the argument list the options leave in opts.arguments;
    \* callerDeadline is the deadline of the caller's ctx (NoDeadline if none)
    subcommand, arguments, optFns, callerDeadline,
    \* what the git process does when left alone: the bytes it writes to
    \* stdout, the chunks it writes to stderr, the status it exits with, or
    \* procHangs if it never exits on its own
    procStdout, procStderr, procExitCode, procHangs,
    \* what rc.trace will find: the milliseconds between the last instant the
    \* clock records and the wait, honey.Enabled(), the actor in the context,
    \* Maxrss of the process's Rusage and runtime.GOOS
    lagMs, honeyEnabled, actor, maxrss, goos,
    \* NewCommand: "new" before the call, "returned" after; its results
    ncState, ncReader, ncErr,
    \* effects of NewCommand
    cmdArgs, startCalls, timeoutInstalled, cancelCalls,
    \* cmd.Stdin and cmd.Env as NewCommand left them
    cmdStdin, cmdEnv,
    \* the span tr: "none", "open" or "ended"; how often it was ended, with what
    span, spanEnds, spanErr,
    \* metrics: execRunning gauge per subcommand, execDuration observations
    execRunning, execDurationObs,
    \* highMemoryCounter per subcommand; the event rc.trace built, events sent,
    \* "Long exec request" and "High memory usage exec request" warnings
    \* logged; the duration rc.trace measured
    highMemoryCounter, event, eventsSent, slowWarnings, highMemWarnings,
    traceDuration,
    \* rc.ctx: its deadline and its Err(), Nil while it is live; the current
    \* time
    ctxDeadline, ctxErr, clock,
    \* the process: "none", "running" or "exited"; ProcessState.ExitCode();
    \* progress through its output; SIGKILLs sent to its group
    procState, exitCode, outPos, errPos, killSignals,
    \* the process table (process id -> process group id) and the processes
    \* that have received a SIGKILL
    pgid, signalled,
    \* the stdout pipe: bytes buffered in it, read end closed
    pipeBuf, pipeReadClosed,
    \* stderr capture: the buffer and the limitWriter's N; len(p), n and err
    \* of the last Write
    stderrBuf, lwN, lastWrite,
    \* the cmdReader: mu's holder, waitOnce, rc.err; calls of cmd.Wait
    mu, waitOnce, rcErr, waitCount,
    \* corruption marker: config writes issued, write errors logged, the last
    \* write (Err() of its context, key, value)
    markerWrites, markerErrLogged, markerCall,
    \* callers: position of each thread, its last return, the bytes it got
    pc, ret, got,
    \* history: calls issued, Closes returned, EOF-observing Reads returned,
    \* what the first EOF-observing Read returned
    opsIssued, nClose, nEofRead, eofOutcome,
    \* history of the wait: what cmd.Wait returned, and ctx.Err() when the
    \* outcome was classified; whether stdErrIndicatesCorruption held of the
    \* captured stderr then
    waitErr, ctxAtWait, matchAtWait,
    \* several invocations side by side: the state of each (its NewCommand,
    \* process and cmdReader), and the objects they refer to by identity:
    \* Err() of each context, the bytes in each stdout pipe, the contents of
    \* each stderr buffer
    fleet, fleetCtx, fleetPipe, fleetBuf

inputVars == <<subcommand, arguments, optFns, callerDeadline,
               procStdout, procStderr, procExitCode, procHangs,
               lagMs, honeyEnabled, actor, maxrss, goos>>

newCmdVars == <<ncState, ncReader, ncErr, cmdArgs, startCalls, timeoutInstalled,
               ctxDeadline, cmdStdin, cmdEnv>>

obsVars == <<span, spanEnds, spanErr, execRunning, execDurationObs>>

traceVars == <<highMemoryCounter, event, eventsSent, slowWarnings, highMemWarnings,
               traceDuration>>

procVars == <<procState, exitCode, outPos, errPos, killSignals>>

groupVars == <<pgid, signalled>>

stderrVars == <<stderrBuf, lwN, lastWrite>>

readerVars == <<mu, waitOnce, rcErr, waitCount>>

markerVars == <<markerWrites, markerErrLogged, markerCall>>

callerVars == <<pc, ret, got, opsIssued, nClose, nEofRead, eofOutcome>>

waitVars == <<waitErr, ctxAtWait, matchAtWait>>

fleetVars == <<fleet, fleetCtx, fleetPipe, fleetBuf>>

vars == <<inputVars, clock, groupVars, newCmdVars, cancelCalls, obsVars, traceVars, ctxErr,
          procVars,
          pipeBuf, pipeReadClosed, stderrVars, readerVars, markerVars, callerVars,
          waitVars, fleetVars>>

\* What belongs to the one invocation above, as opposed to what all
\* invocations share: the metrics, the marker store and its log, and the
\* process table of the operating system.
soloVars == <<inputVars, clock, newCmdVars, cancelCalls, span, spanEnds, spanErr,
              execDurationObs, traceVars, ctxErr, procVars, pipeBuf, pipeReadClosed,
              stderrVars, readerVars, markerCall, callerVars, waitVars>>

NoThread == "none"

NoCall == [ctxErr |-> Nil, key |-> "", value |-> ""]

NoReturn == [op |-> "none", n |-> 0, err |-> Nil, eof |-> FALSE, late |-> FALSE]

\* ------------------------------------------------------ time and deadlines
\* Time is unix time in seconds.  Epoch is the instant NewCommand is called at.
Epoch == 1000

\* The deadline of a context that has none: ctx.Deadline() returns ok = false.
NoDeadline == 0

\* time.Minute, in seconds.
gitCommandDefaultTimeout == 60

\* Deadlines of the caller's context: none, or 30 or 90 seconds after the call.
CallerDeadlines == {NoDeadline, Epoch + 30, Epoch + 90}

\* Those of the lifecycle specifications.
LifecycleDeadlines == {NoDeadline, Epoch + 30}

\* _, ok := ctx.Deadline()
callerHasDeadline == callerDeadline # NoDeadline

\* Mutant: the default timeout is installed whatever the caller's context says.
ctxDeadlineFor_Always(parent, now) == now + gitCommandDefaultTimeout

\* Mutant: no default timeout is installed.
ctxDeadlineFor_Never(parent, now) == parent

\* The deadline of the context the command runs under: the parent's, or that of
\* context.WithTimeout(ctx, gitCommandDefaultTimeout) if the parent has none.
ctxDeadlineFor(parent, now) ==
    IF parent = NoDeadline THEN now + gitCommandDefaultTimeout ELSE parent

\* ---------------------------------------------------------- process groups
\* Process ids: the gateway itself, the git process of another invocation,
\* the git process this call starts and a helper process that git spawns.
Pid == [gateway |-> 1, other |-> 7, git |-> 8, helper |-> 9]

\* The processes that exist before the call, each the leader of its group.
InitialProcesses == [p \in {Pid.gateway, Pid.other} |-> p]

\* cmd.SysProcAttr.Setpgid
Setpgid == TRUE

\* The process group of a child forked by parent: with Setpgid (and Pgid 0)
\* a new group whose id is the child's pid, the parent's group otherwise.
childPgid(child, parent, table) == IF Setpgid THEN child ELSE table[parent]

\* git fetch runs transport helpers as child processes; git log runs none.
SpawnsHelper(sub) == sub = "fetch"

\* The process table after wrappedCmd.Start() for subcommand sub: the git
\* process, and its helper in the group of the git process.
Started(table, sub) ==
    LET g == childPgid(Pid.git, Pid.gateway, table)
    IN  [p \in DOMAIN table \cup {Pid.git}
                \cup (IF SpawnsHelper(sub) THEN {Pid.helper} ELSE {}) |->
            IF p \in DOMAIN table THEN table[p] ELSE g]

\* syscall.Kill(pid, sig): the processes that receive the signal.  A negative
\* pid addresses every process of the group -pid.
KillReceivers(pid, table) ==
    IF pid < 0
    THEN {p \in DOMAIN table : table[p] = -pid}
    ELSE {p \in DOMAIN table : p = pid}

\* Mutant: the signal goes to the git process alone.
cancelTarget_LeaderOnly == Pid.git

\* The pid cmd.Cancel passes to syscall.Kill: -cmd.Process.Pid.
cancelTarget == -Pid.git

\* ------------------------------------------------- concurrent invocations
\* Invocations that run side by side, for one request.
Invocations == {1, 2}

\* The process id of the git process of invocation i.
FleetPid(i) == 10 + i

\* The caller's context, which the invocations of one request share.
RequestCtx == 0

\* What a git process of these invocations does when left alone: the bytes
\* it writes to stdout, the text it writes to stderr, its exit status.
FleetScripts ==
    { [stdout |-> "a", stderr |-> "", code |-> 0],
      [stdout |-> "", stderr |-> "fatal: unknown flag", code |-> 1],
      [stdout |-> "", stderr |-> "error: Could not read abc123", code |-> 1] }

\* An invocation before its NewCommand.
NoInvocation ==
    [nc |-> "new", reader |-> FALSE, sub |-> "", script |-> [stdout |-> "", stderr |-> "", code |-> 0],
     proc |-> "none", wrote |-> FALSE, exitCode |-> 0,
     ctx |-> RequestCtx, stdout |-> 0, stderr |-> 0,
     waited |-> FALSE, rcErr |-> Nil, waits |-> 0, incs |-> 0, decs |-> 0,
     got |-> "", ret |-> Nil]

\* The context NewCommand of invocation i runs the command under: the
\* caller's if that has a deadline, a new child of it (context.WithTimeout)
\* otherwise.
invocationCtx(i, hasDeadline) == IF hasDeadline THEN RequestCtx ELSE i

\* stderrBuffer(): the buffer of invocation i, a new one for every call.
stderrBuffer(i) == i

\* cmd.StdoutPipe(): the pipe of invocation i, a new one for every call.
StdoutPipe(i) == i

\* Mutant: cancel is the cancel function of the caller's context.
ctxCancelOf_Parent(i, hasDeadline, table) ==
    [c \in DOMAIN table |-> IF table[c] = Nil THEN CtxCanceled ELSE table[c]]

\* cancel() of invocation i on the table of contexts: a no-op if the command
\* runs under the caller's context, the cancel function of the child context
\* otherwise, which leaves the parent and its other children alone.
ctxCancelOf(i, hasDeadline, table) ==
    IF invocationCtx(i, hasDeadline) = RequestCtx THEN table
    ELSE [table EXCEPT ![i] = IF @ = Nil THEN CtxCanceled ELSE @]

\* ------------------------------------------------------------------ inputs
Subcommands == {"log", "fetch"}

\* The subcommands of the observability specification: one or more of each
\* class that shortGitCommandSlow and HoneySampleRate tell apart.
TraceSubcommands ==
    {"archive", "blame", "ls-tree", "log", "show", "fetch",
     "rev-parse", "rev-list", "config", "status"}

\* The label values of the metrics.
MetricLabels == Subcommands \cup TraceSubcommands

\* Milliseconds between the last instant the clock records and the wait: on
\* either side of each threshold.
LagSamples == {0, 1, 2500, 2501, 5000, 5001, 10000, 10001}

\* Internal or not, with UID 0 (not set) or the UID of a user.
Actors == {Actor(i, u) : i \in BOOLEAN, u \in {0, 42}}

\* What the operating system reports as Maxrss: nothing, and 600000 KiB as
\* Linux and as darwin report it.
MemoryReports ==
    { [goos |-> "linux", maxrss |-> Int64(0)],
      [goos |-> "linux", maxrss |-> Int64(600000)],
      [goos |-> "darwin", maxrss |-> Int64(600000 * KiB)] }

\* The observability inputs of the other specifications: a user's command
\* measured at the instant the clock records, with honey enabled.
\* The call passes one option, WithArguments(arguments...).
ArgumentsOnly == optFns = <<WithArguments(arguments)>>

RoutineObservation ==
    /\ lagMs = 0
    /\ honeyEnabled = TRUE
    /\ actor = Actor(FALSE, 42)
    /\ maxrss = Int64(0) /\ goos = "linux"

\* Arguments callers build command lines from.
ArgumentPool ==
    { FlagArgument("--all"),
      SpecSafeValueArgument("HEAD"),
      SpecSafeValueArgument("-rf"),
      ValueFlagArgument("--format", "%H"),
      ConfigArgument("core.test", "1"),
      ConfigArgument("gc.auto", "0"),
      NilArgument }

\* Longest argument list of the builder's specification.
MaxArgs == 3

RECURSIVE SeqsUpTo(_, _)
SeqsUpTo(S, n) ==
    IF n = 0 THEN {<<>>}
    ELSE LET shorter == SeqsUpTo(S, n - 1)
         IN  shorter \cup {Append(s, a) : s \in {x \in shorter : Len(x) = n - 1}, a \in S}

\* Calls of the lifecycle specification: a valid one with a config flag in
\* front, a valid one with a config flag behind a flag, a rejected one.
LifecycleCalls ==
    { [subcommand |-> "log",
       arguments |-> <<ConfigArgument("core.test", "1"), SpecSafeValueArgument("HEAD")>>],
      [subcommand |-> "fetch",
       arguments |-> <<FlagArgument("--all"), ConfigArgument("gc.auto", "0")>>],
      [subcommand |-> "log",
       arguments |-> <<FlagArgument("--all"), SpecSafeValueArgument("-rf")>>] }

StdoutInputs == {"", "ab"}

x4 == "xxxx"

x16 == x4 \o x4 \o x4 \o x4

x64 == x16 \o x16 \o x16 \o x16

x256 == x64 \o x64 \o x64 \o x64

x1020 == x256 \o x256 \o x256 \o SubSeq(x256, 1, 252)

\* stderr of the process, as the sequence of chunks handed to Write.
StderrInputs ==
    { <<>>,
      <<"fatal: unknown flag">>,
      <<"error: Could not read abc123">>,
      <<"warning: slow\n", "error: packfile p is bad\n">>,
      <<x1020, "\nerror: packfile p is bad\n">> }

\* stderr of the capture specification: the above, and chunks that are cut at
\* the cap, that fill the buffer exactly, that arrive when it is full, and
\* texts with the patterns at and away from the beginning of a line.
StderrSamples ==
    StderrInputs \cup
    { <<x1020, "\nerror: packfile p is bad\n", "more\n">>,
      <<x1020, "xxxx", "error: packfile p is bad\n">>,
      <<"fatal: commit-graph requires overflow generation data but has none\n">>,
      <<"hint: error: packfile p is bad\n", "error: packfile">>,
      <<"fatal: bad object\n", "fatal: commit-graph requires overflow generation data but has none">>,
      <<"error: Could not read", " abc123\n">> }

\* What a process writes to stderr when it overflows the capture: a signature
\* line that starts behind the first 1024 bytes, one within them with more
\* than 1024 bytes behind it, one that ends with byte 1024, and one that
\* begins before byte 1024 and ends behind it.
OverflowSamples ==
    { <<x1020, "xxx\n", "error: packfile p is bad\n">>,
      <<"error: packfile p is bad\n", x1020, "more\n">>,
      <<SubSeq(x1020, 1, 1007) \o "\n", "error: packfile p is bad\n">>,
      <<x1020, "\nerror: packfile p is bad\n", "more\n">> }

ExitCodes == {0, 1}

InitState ==
    /\ ncState = "new" /\ ncReader = FALSE /\ ncErr = Nil
    /\ cmdArgs = <<>> /\ startCalls = 0 /\ timeoutInstalled = FALSE
    /\ cmdStdin = NoStdin /\ cmdEnv = NilEnv
    /\ ctxDeadline = NoDeadline /\ clock = Epoch
    /\ cancelCalls = 0
    /\ span = "none" /\ spanEnds = 0 /\ spanErr = Nil
    /\ execRunning = [c \in MetricLabels |-> 0] /\ execDurationObs = 0
    /\ highMemoryCounter = [c \in MetricLabels |-> 0]
    /\ event = NoEvent /\ eventsSent = 0
    /\ slowWarnings = 0 /\ highMemWarnings = 0 /\ traceDuration = 0
    /\ ctxErr = Nil
    /\ procState = "none" /\ exitCode = 0 /\ outPos = 0 /\ errPos = 0
    /\ killSignals = 0
    /\ pgid = InitialProcesses /\ signalled = {}
    /\ pipeBuf = "" /\ pipeReadClosed = FALSE
    /\ stderrBuf = "" /\ lwN = maxStderrCapture
    /\ lastWrite = [len |-> 0, n |-> 0, err |-> Nil]
    /\ mu = NoThread /\ waitOnce = FALSE /\ rcErr = Nil /\ waitCount = 0
    /\ markerWrites = 0 /\ markerErrLogged = 0 /\ markerCall = NoCall
    /\ pc = [t \in Threads |-> "idle"]
    /\ ret = [t \in Threads |-> NoReturn]
    /\ got = [t \in Threads |-> ""]
    /\ opsIssued = 0 /\ nClose = 0 /\ nEofRead = 0 /\ eofOutcome = Nil
    /\ waitErr = Nil /\ ctxAtWait = Nil /\ matchAtWait = FALSE
    /\ fleet = [i \in Invocations |-> NoInvocation]
    /\ fleetCtx = [c \in {RequestCtx} \cup Invocations |-> Nil]
    /\ fleetPipe = [c \in {0} \cup Invocations |-> ""]
    /\ fleetBuf = [c \in {0} \cup Invocations |-> ""]

Init ==
    /\ \E call \in LifecycleCalls :
        /\ subcommand = call.subcommand
        /\ arguments = call.arguments
    /\ callerDeadline \in LifecycleDeadlines
    /\ procStdout \in StdoutInputs
    /\ procStderr \in StderrInputs
    /\ procExitCode \in ExitCodes
    /\ procHangs \in BOOLEAN
    /\ procHangs => procExitCode = 0
    /\ RoutineObservation
    /\ ArgumentsOnly
    /\ InitState

\* ------------------------------------------------------------- NewCommand
\* cancel(): releases the default-timeout context if one was installed
\* (cancel is a no-op function otherwise).
CtxCancel(installed) ==
    /\ cancelCalls' = cancelCalls + 1
    /\ ctxErr' = IF installed /\ ctxErr = Nil THEN CtxCanceled ELSE ctxErr

\* Mutant: a failed launch leaves the timeout context and the span as they are.
launchFailed_Leaky(e, installed) ==
    /\ UNCHANGED <<cancelCalls, ctxErr>>
    /\ ncReader' = FALSE /\ ncErr' = e
    /\ span' = "open"
    /\ UNCHANGED <<spanEnds, spanErr>>

\* The error returns of NewCommand once the span is open: cancel(), return
\* nil, e, and the deferred tr.EndWithErr(&err).
launchFailed(e, installed) ==
    /\ CtxCancel(installed)
    /\ ncReader' = FALSE /\ ncErr' = e
    /\ span' = "ended" /\ spanEnds' = spanEnds + 1
    /\ spanErr' = e

\* NewCommand: build the tokens, open the span, install the default timeout
\* if the caller's context has no deadline, create the stdout pipe and start
\* the process.  pipeOK and startOK are whether StdoutPipe and Start succeed.
NewCommand ==
    /\ ncState = "new"
    /\ \E pipeOK, startOK \in BOOLEAN :
        LET opts == optsFromFuncs(optFns)
            built == argsFromArguments(subcommand, opts.arguments)
            env == IF Len(opts.env) > 0 THEN osEnviron \o opts.env ELSE NilEnv
            deadline == ctxDeadlineFor(callerDeadline, clock)
            installed == deadline # callerDeadline
        IN  /\ ncState' = "returned"
            /\ IF built.err # Nil
               THEN \* return nil, err
                    /\ ncReader' = FALSE /\ ncErr' = built.err
                    /\ UNCHANGED <<cmdArgs, startCalls, timeoutInstalled,
                                   ctxDeadline, cancelCalls, span, spanEnds, spanErr,
                                   execRunning, ctxErr, procState, pgid,
                                   cmdStdin, cmdEnv>>
               ELSE /\ cmdArgs' = <<"git">> \o built.args
                    /\ cmdEnv' = env
                    /\ ctxDeadline' = deadline
                    /\ timeoutInstalled' = installed
                    /\ IF ~pipeOK
                       THEN LET e == Wrap([kind |-> "pipe error"],
                                          "failed to create stdout pipe")
                            IN  /\ launchFailed(e, installed)
                                /\ UNCHANGED <<startCalls, execRunning, procState, pgid,
                                               cmdStdin>>
                       ELSE IF ~startOK
                       THEN LET e == Wrap([kind |-> "start error"],
                                          "failed to start git process")
                            IN  /\ startCalls' = startCalls + 1
                                /\ cmdStdin' = opts.stdin
                                /\ launchFailed(e, installed)
                                /\ UNCHANGED <<execRunning, procState, pgid>>
                       ELSE /\ startCalls' = startCalls + 1
                            /\ cmdStdin' = opts.stdin
                            /\ procState' = "running"
                            /\ pgid' = Started(pgid, subcommand)
                            /\ execRunning' = gaugeInc(execRunning, subcommand)
                            /\ ncReader' = TRUE /\ ncErr' = Nil
                            /\ span' = "open"
                            /\ UNCHANGED <<spanEnds, spanErr, cancelCalls, ctxErr>>
    /\ UNCHANGED <<inputVars, fleetVars, traceVars, signalled, clock, execDurationObs, exitCode,
                   outPos, errPos, killSignals, pipeBuf, pipeReadClosed, stderrVars, readerVars,
                   markerVars, callerVars, waitVars>>

\* ------------------------------------------------------------ the process
\* The process writes the next bytes of its output to the stdout pipe.
ProcWriteStdout ==
    /\ procState = "running"
    /\ outPos < Len(procStdout)
    /\ \E k \in 1..(Len(procStdout) - outPos) :
        /\ pipeBuf' = pipeBuf \o SubSeq(procStdout, outPos + 1, outPos + k)
        /\ outPos' = outPos + k
    /\ UNCHANGED <<inputVars, fleetVars, traceVars, groupVars, clock, newCmdVars, cancelCalls, obsVars, ctxErr,
                   procState, exitCode, errPos, killSignals, pipeReadClosed,
                   stderrVars, readerVars, markerVars, callerVars, waitVars>>

\* The process writes its next chunk to stderr: one Write on the limitWriter
\* installed as cmd.Stderr.
ProcWriteStderr ==
    /\ procState = "running"
    /\ errPos < Len(procStderr)
    /\ LET w == limitWriterWrite(stderrBuf, lwN, procStderr[errPos + 1])
       IN  /\ stderrBuf' = w.buf
           /\ lwN' = w.N
           /\ lastWrite' = [len |-> Len(procStderr[errPos + 1]),
                            n |-> w.n, err |-> w.err]
    /\ errPos' = errPos + 1
    /\ UNCHANGED <<inputVars, fleetVars, traceVars, groupVars, clock, newCmdVars, cancelCalls, obsVars, ctxErr,
                   procState, exitCode, outPos, killSignals, pipeBuf,
                   pipeReadClosed, readerVars, markerVars, callerVars, waitVars>>

\* The process exits on its own once it has written all its output, unless
\* it is one that hangs; the write end of the stdout pipe is closed with it.
ProcExit ==
    /\ procState = "running"
    /\ ~procHangs
    /\ outPos = Len(procStdout)
    /\ errPos = Len(procStderr)
    /\ procState' = "exited"
    /\ exitCode' = procExitCode
    /\ UNCHANGED <<inputVars, fleetVars, traceVars, groupVars, clock, newCmdVars, cancelCalls, obsVars, ctxErr,
                   outPos, errPos, killSignals, pipeBuf, pipeReadClosed,
                   stderrVars, readerVars, markerVars, callerVars, waitVars>>

\* ------------------------------------------------------------ the context
\* The caller cancels the context it passed to NewCommand; rc.ctx is that
\* context or derived from it.
CallerCancel ==
    /\ ncReader
    /\ ctxErr = Nil
    /\ ctxErr' = CtxCanceled
    /\ UNCHANGED <<inputVars, fleetVars, traceVars, groupVars, clock, newCmdVars, cancelCalls, obsVars, procVars,
                   pipeBuf, pipeReadClosed, stderrVars, readerVars, markerVars,
                   callerVars, waitVars>>

\* Time passes until the deadline of rc.ctx (the caller's, or the default
\* timeout's) and the context expires.
DeadlinePasses ==
    /\ ncReader
    /\ ctxErr = Nil
    /\ ctxDeadline # NoDeadline
    /\ clock < ctxDeadline
    /\ clock' = ctxDeadline
    /\ ctxErr' = CtxDeadlineExceeded
    /\ UNCHANGED <<inputVars, fleetVars, traceVars, groupVars, newCmdVars, cancelCalls, obsVars, procVars,
                   pipeBuf, pipeReadClosed, stderrVars, readerVars, markerVars,
                   callerVars, waitVars>>

\* cmd.Cancel, run by os/exec once the context is done while the process has
\* not been waited for: SIGKILL to the process group.  A killed process
\* reports exit code -1.
CmdCancel ==
    /\ procState = "running"
    /\ ctxErr # Nil
    /\ killSignals' = killSignals + 1
    /\ signalled' = signalled \cup KillReceivers(cancelTarget, pgid)
    /\ procState' = "exited"
    /\ exitCode' = -1
    /\ UNCHANGED <<inputVars, fleetVars, traceVars, pgid, clock, newCmdVars, cancelCalls, obsVars, ctxErr,
                   outPos, errPos, pipeBuf, pipeReadClosed, stderrVars,
                   readerVars, markerVars, callerVars, waitVars>>

\* -------------------------------------------------------------- cmdReader
\* Mutant: the call returns without rc.mu.Unlock().
Return_NoUnlock(t, r) ==
    /\ ret' = [ret EXCEPT ![t] = [op |-> r.op, n |-> r.n, err |-> r.err,
                                  eof |-> r.eof, late |-> nEofRead > 0]]
    /\ pc' = [pc EXCEPT ![t] = "idle"]
    /\ mu' = mu
    /\ nClose' = IF r.op = "Close" THEN nClose + 1 ELSE nClose
    /\ nEofRead' = IF r.op = "Read" /\ r.eof THEN nEofRead + 1 ELSE nEofRead
    /\ eofOutcome' = IF r.op = "Read" /\ r.eof /\ nEofRead = 0
                     THEN r.err ELSE eofOutcome

\* The deferred rc.mu.Unlock() and the return of (n, err) from Read or Close.
\* The record kept of a return: the call, n, err, whether the call saw io.EOF
\* on stdout, and whether an EOF-observing Read had returned before it.
Return(t, r) ==
    /\ ret' = [ret EXCEPT ![t] = [op |-> r.op, n |-> r.n, err |-> r.err,
                                  eof |-> r.eof, late |-> nEofRead > 0]]
    /\ pc' = [pc EXCEPT ![t] = "idle"]
    /\ mu' = NoThread
    /\ nClose' = IF r.op = "Close" THEN nClose + 1 ELSE nClose
    /\ nEofRead' = IF r.op = "Read" /\ r.eof THEN nEofRead + 1 ELSE nEofRead
    /\ eofOutcome' = IF r.op = "Read" /\ r.eof /\ nEofRead = 0
                     THEN r.err ELSE eofOutcome

\* Read, first line: rc.mu.Lock().
ReadLock(t) ==
    /\ ncReader
    /\ pc[t] = "idle"
    /\ opsIssued < MaxOps
    /\ mu = NoThread
    /\ mu' = t
    /\ pc' = [pc EXCEPT ![t] = "rStdout"]
    /\ opsIssued' = opsIssued + 1
    /\ UNCHANGED <<inputVars, fleetVars, traceVars, groupVars, clock, newCmdVars, cancelCalls, obsVars, ctxErr,
                   procVars, pipeBuf, pipeReadClosed, stderrVars, waitOnce,
                   rcErr, waitCount, markerVars, ret, got, nClose, nEofRead,
                   eofOutcome, waitVars>>

\* Mutant: Read goes into waitCmd after every rc.stdout.Read that did not
\* fail, also when it returned bytes.
ReadStdout_WaitsAlways(t) ==
    /\ pc[t] = "rStdout"
    /\ \E plen \in 1..MaxReadLen :
        IF pipeReadClosed
        THEN /\ Return(t, [op |-> "Read", n |-> 0, err |-> ErrClosed, eof |-> FALSE])
             /\ UNCHANGED <<pipeBuf, got>>
        ELSE IF pipeBuf # ""
        THEN LET n == IF Len(pipeBuf) < plen THEN Len(pipeBuf) ELSE plen
             IN  /\ pipeBuf' = SubSeq(pipeBuf, n + 1, Len(pipeBuf))
                 /\ got' = [got EXCEPT ![t] = @ \o SubSeq(pipeBuf, 1, n)]
                 /\ pc' = [pc EXCEPT ![t] = "rWait"]
                 /\ UNCHANGED <<mu, ret, nClose, nEofRead, eofOutcome>>
        ELSE /\ procState = "exited"
             /\ pc' = [pc EXCEPT ![t] = "rWait"]
             /\ UNCHANGED <<pipeBuf, got, mu, ret, nClose, nEofRead, eofOutcome>>
    /\ UNCHANGED <<inputVars, fleetVars, traceVars, groupVars, clock, newCmdVars, cancelCalls, obsVars, ctxErr,
                   procVars, pipeReadClosed, stderrVars, waitOnce, rcErr,
                   waitCount, markerVars, opsIssued, waitVars>>

\* Read: n, err = rc.stdout.Read(p) with len(p) = plen.  A read end closed by
\* Wait fails with os.ErrClosed; buffered bytes are returned; an empty pipe
\* whose writer has exited gives io.EOF and leads into waitCmd; otherwise the
\* read blocks.  Everything but io.EOF is returned as it is.
ReadStdout(t) ==
    /\ pc[t] = "rStdout"
    /\ \E plen \in 1..MaxReadLen :
        IF pipeReadClosed
        THEN /\ Return(t, [op |-> "Read", n |-> 0, err |-> ErrClosed, eof |-> FALSE])
             /\ UNCHANGED <<pipeBuf, got>>
        ELSE IF pipeBuf # ""
        THEN LET n == IF Len(pipeBuf) < plen THEN Len(pipeBuf) ELSE plen
             IN  /\ pipeBuf' = SubSeq(pipeBuf, n + 1, Len(pipeBuf))
                 /\ got' = [got EXCEPT ![t] = @ \o SubSeq(pipeBuf, 1, n)]
                 /\ Return(t, [op |-> "Read", n |-> n, err |-> Nil, eof |-> FALSE])
        ELSE /\ procState = "exited"
             /\ pc' = [pc EXCEPT ![t] = "rWait"]
             /\ UNCHANGED <<pipeBuf, got, mu, ret, nClose, nEofRead, eofOutcome>>
    /\ UNCHANGED <<inputVars, fleetVars, traceVars, groupVars, clock, newCmdVars, cancelCalls, obsVars, ctxErr,
                   procVars, pipeReadClosed, stderrVars, waitOnce, rcErr,
                   waitCount, markerVars, opsIssued, waitVars>>

\* Mutant: Close cancels the invocation's context before it waits.
CloseLock_CancelFirst(t) ==
    /\ ncReader
    /\ pc[t] = "idle"
    /\ opsIssued < MaxOps
    /\ mu = NoThread
    /\ mu' = t
    /\ pc' = [pc EXCEPT ![t] = "cWait"]
    /\ opsIssued' = opsIssued + 1
    /\ CtxCancel(timeoutInstalled)
    /\ UNCHANGED <<inputVars, fleetVars, traceVars, groupVars, clock, newCmdVars,
                   obsVars, procVars, pipeBuf, pipeReadClosed, stderrVars, waitOnce,
                   rcErr, waitCount, markerVars, ret, got, nClose, nEofRead,
                   eofOutcome, waitVars>>

\* Close, first line: rc.mu.Lock(); then waitCmd.
CloseLock(t) ==
    /\ ncReader
    /\ pc[t] = "idle"
    /\ opsIssued < MaxOps
    /\ mu = NoThread
    /\ mu' = t
    /\ pc' = [pc EXCEPT ![t] = "cWait"]
    /\ opsIssued' = opsIssued + 1
    /\ UNCHANGED <<inputVars, fleetVars, traceVars, groupVars, clock, newCmdVars, cancelCalls, obsVars, ctxErr,
                   procVars, pipeBuf, pipeReadClosed, stderrVars, waitOnce,
                   rcErr, waitCount, markerVars, ret, got, nClose, nEofRead,
                   eofOutcome, waitVars>>

\* Close, first line, when another call holds rc.mu: the caller blocks in
\* rc.mu.Lock().
CloseLockWait(t) ==
    /\ ncReader
    /\ pc[t] = "idle"
    /\ opsIssued < MaxOps
    /\ mu # NoThread
    /\ pc' = [pc EXCEPT ![t] = "cLock"]
    /\ opsIssued' = opsIssued + 1
    /\ UNCHANGED <<inputVars, fleetVars, traceVars, groupVars, clock, newCmdVars,
                   cancelCalls, obsVars, ctxErr, procVars, pipeBuf, pipeReadClosed,
                   stderrVars, readerVars, markerVars, ret, got, nClose, nEofRead,
                   eofOutcome, waitVars>>

\* A Close blocked in rc.mu.Lock() gets the mutex once it is free; then
\* waitCmd.
CloseLockAcquire(t) ==
    /\ pc[t] = "cLock"
    /\ mu = NoThread
    /\ mu' = t
    /\ pc' = [pc EXCEPT ![t] = "cWait"]
    /\ UNCHANGED <<inputVars, fleetVars, traceVars, groupVars, clock, newCmdVars,
                   cancelCalls, obsVars, ctxErr, procVars, pipeBuf, pipeReadClosed,
                   stderrVars, waitOnce, rcErr, waitCount, markerVars, ret, got,
                   opsIssued, nClose, nEofRead, eofOutcome, waitVars>>

\* Mutant: Read returns io.EOF whatever waitCmd returned.
readAfterWait_AlwaysEOF(werr) == EOF

\* Mutant: Read returns what waitCmd returned, nil included.
readAfterWait_NoEOF(werr) == werr

\* What Read returns at end-of-stream after waitCmd returned werr.

readAfterWait(werr) == IF werr # Nil THEN werr ELSE EOF

\* What the call that ran waitCmd returns.
OpResult(t, werr) ==
    IF pc[t] \in {"cWait", "cFinish"}
    THEN [op |-> "Close", n |-> 0, err |-> werr, eof |-> FALSE]
    ELSE [op |-> "Read", n |-> 0, err |-> readAfterWait(werr), eof |-> TRUE]

\* Mutant: no once guard, every waitCmd runs the body.
waitOnceDone_Never == FALSE

\* rc.waitOnce has run its function.
waitOnceDone == waitOnce

\* rc.cmd.Wait(), by the contract of os/exec: nil when the command exited
\* with status 0, an ExitError otherwise (a killed process has status -1); a
\* second Wait on the same command is an error.
cmdWait ==
    IF waitCount > 0 THEN [kind |-> "exec: Wait was already called"]
    ELSE IF exitCode = 0 THEN Nil
    ELSE ExitError(exitCode)

\* waitCmd when the once has already run: return rc.err.
WaitCmdMemo(t) ==
    /\ pc[t] \in {"rWait", "cWait"}
    /\ waitOnceDone
    /\ Return(t, OpResult(t, rcErr))
    /\ UNCHANGED <<inputVars, fleetVars, traceVars, groupVars, clock, newCmdVars, cancelCalls, obsVars, ctxErr,
                   procVars, pipeBuf, pipeReadClosed, stderrVars, waitOnce,
                   rcErr, waitCount, markerVars, got, opsIssued, waitVars>>

\* waitCmd, once-body, first statement: rc.err = rc.cmd.Wait().  Wait blocks
\* until the process has exited and closes the read end of the stdout pipe.
WaitCmdWait(t) ==
    /\ pc[t] \in {"rWait", "cWait"}
    /\ ~waitOnceDone
    /\ procState = "exited"
    /\ rcErr' = cmdWait
    /\ waitErr' = cmdWait
    /\ waitCount' = waitCount + 1
    /\ pipeReadClosed' = TRUE
    /\ pc' = [pc EXCEPT ![t] = IF pc[t] = "rWait" THEN "rFinish" ELSE "cFinish"]
    /\ UNCHANGED <<inputVars, fleetVars, traceVars, groupVars, clock, newCmdVars, cancelCalls, obsVars, ctxErr,
                   procVars, pipeBuf, stderrVars, mu, waitOnce, markerVars,
                   ret, got, opsIssued, nClose, nEofRead, eofOutcome,
                   ctxAtWait, matchAtWait>>

\* cmdStart := time.Now() in NewCommand.
cmdStart == Epoch

\* time.Since(start), in milliseconds.
Since(start) == (clock - start) * Second + lagMs

\* rc.trace() with rc.err = err: the gauge and the histogram, the high-memory
\* counter, and, if honey is enabled or the command was slow or used much
\* memory, the event, which is sent if honey is enabled and logged with a
\* warning if the command was slow or used much memory.
trace(err) ==
    LET duration == Since(cmdStart)
        memUsage == rssToByteSize(maxrss, goos)
        slow     == isSlow(duration, subcommand)
        highMem  == isHighMem(memUsage)
        built    == eventBuilt(honeyEnabled, slow, highMem)
    IN  /\ execRunning' = gaugeDec(execRunning, subcommand)
        /\ execDurationObs' = execDurationObs + 1
        /\ traceDuration' = duration
        /\ highMemoryCounter' = IF highMem THEN gaugeInc(highMemoryCounter, subcommand)
                                ELSE highMemoryCounter
        /\ event' = IF built
                    THEN Event(HoneySampleRate(subcommand, actor), subcommand, cmdArgs,
                               actor.UID, exitCode, err, duration, divKiB(memUsage))
                    ELSE event
        /\ eventsSent' = IF built /\ eventSent(honeyEnabled)
                         THEN eventsSent + 1 ELSE eventsSent
        /\ slowWarnings' = IF built /\ slow THEN slowWarnings + 1 ELSE slowWarnings
        /\ highMemWarnings' = IF built /\ highMem
                              THEN highMemWarnings + 1 ELSE highMemWarnings

\* Mutant: the corruption heuristic runs whatever cmd.Wait returned.
waitReportsFailure_Always(err) == TRUE

\* waitCmd, "if rc.err != nil": only then the once-body runs
\* checkMaybeCorruptRepo and classifies.
waitReportsFailure(err) == err # Nil

\* Mutant: rc.ctxCancel() has already run when the classification reads
\* rc.ctx.Err().
onceBodyCtxErr_AfterCancel(now, installed) ==
    IF installed /\ now = Nil THEN CtxCanceled ELSE now

\* rc.ctx.Err() as commandFailedError reads it inside the once-body: the
\* classification comes before rc.trace(), rc.tr.EndWithErr and
\* rc.ctxCancel(), so it sees the context as it is now.
onceBodyCtxErr(now, installed) == now

\* waitCmd, rest of the once-body and return: classify the error of Wait
\* (when stderr matches, checkMaybeCorruptRepo writes the marker, key
\* gitConfigMaybeCorrupt and value the unix time, under context.Background()
\* and logs a failed write; setOK is whether the write succeeds), rc.trace(),
\* rc.tr.EndWithErr(&rc.err), rc.ctxCancel(); then return rc.err.
WaitCmdFinish(t) ==
    /\ pc[t] \in {"rFinish", "cFinish"}
    /\ \E setOK \in BOOLEAN :
       LET setErr  == IF setOK THEN Nil ELSE [kind |-> "config error"]
           corrupt == waitReportsFailure(rcErr) /\ checkMaybeCorruptRepo(stderrBuf, setErr)
           matches == waitReportsFailure(rcErr) /\ stdErrIndicatesCorruption(stderrBuf)
           outcome == classify(rcErr, corrupt,
                               onceBodyCtxErr(ctxErr, timeoutInstalled),
                               cmdArgs, stderrBuf, exitCode)
       IN  /\ rcErr' = outcome
           /\ IF matches
              THEN /\ markerWrites' = markerWrites + 1
                   /\ markerCall' = [ctxErr |-> markerCtxErr(ctxErr),
                                     key |-> gitConfigMaybeCorrupt,
                                     value |-> FormatInt(clock)]
                   /\ markerErrLogged' = IF setErr = Nil THEN markerErrLogged
                                         ELSE markerErrLogged + 1
              ELSE UNCHANGED markerVars
           /\ trace(outcome)
           \* rc.tr.EndWithErr(&rc.err)
           /\ span' = "ended"
           /\ spanEnds' = spanEnds + 1
           /\ spanErr' = outcome
           /\ CtxCancel(timeoutInstalled)
           /\ ctxAtWait' = ctxErr
           /\ matchAtWait' = matches
           /\ waitOnce' = TRUE
           /\ Return(t, OpResult(t, outcome))
    /\ UNCHANGED <<inputVars, fleetVars, groupVars, clock, newCmdVars, procVars, pipeBuf,
                   pipeReadClosed, stderrVars, waitCount, got, opsIssued,
                   waitErr>>

\* ----------------------------------------------------------- specification
Next ==
    \/ NewCommand
    \/ ProcWriteStdout
    \/ ProcWriteStderr
    \/ ProcExit
    \/ CallerCancel
    \/ DeadlinePasses
    \/ CmdCancel
    \/ \E t \in Threads : ReadLock(t)
    \/ \E t \in Threads : ReadStdout(t)
    \/ \E t \in Threads : CloseLock(t)
    \/ \E t \in Threads : WaitCmdMemo(t)
    \/ \E t \in Threads : WaitCmdWait(t)
    \/ \E t \in Threads : WaitCmdFinish(t)

Spec == Init /\ [][Next]_vars

\* The command builder on its own: every argument list up to MaxArgs drawn
\* from ArgumentPool, handed to NewCommand.
InitArgs ==
    /\ subcommand \in Subcommands
    /\ arguments \in SeqsUpTo(ArgumentPool, MaxArgs)
    /\ callerDeadline \in CallerDeadlines
    /\ procStdout = ""
    /\ procStderr = <<>>
    /\ procExitCode = 0
    /\ procHangs = FALSE
    /\ RoutineObservation
    /\ ArgumentsOnly
    /\ InitState

\* Argument values with blanks, '=' and an inner " -" in them, next to plain
\* ones and to one unsafe spec.
TokenPool ==
    { FlagArgument("--all"),
      FlagArgument("--grep=a b"),
      SpecSafeValueArgument("HEAD -rf"),
      SpecSafeValueArgument("-rf"),
      ValueFlagArgument("--format", "%H %s"),
      ConfigArgument("user.name", "a b"),
      ConfigArgument("core.test", "x=1") }

\* The tokenization scenario: NewCommand for every list over TokenPool.
InitTokens ==
    /\ subcommand = "log"
    /\ arguments \in SeqsUpTo(TokenPool, MaxArgs)
    /\ callerDeadline = NoDeadline
    /\ procStdout = ""
    /\ procStderr = <<>>
    /\ procExitCode = 0
    /\ procHangs = FALSE
    /\ RoutineObservation
    /\ ArgumentsOnly
    /\ InitState

NextArgs == NewCommand

SpecArgs == InitArgs /\ [][NextArgs]_vars

SpecTokens == InitTokens /\ [][NextArgs]_vars

\* The option functions a caller may pass: argument lists, stdin sources (nil
\* among them) and environment lists (an empty one among them).
OptionPool ==
    { WithArguments(<<FlagArgument("--all")>>),
      WithArguments(<<SpecSafeValueArgument("HEAD"), ConfigArgument("gc.auto", "0")>>),
      WithArguments(<<>>),
      WithStdin("r1"),
      WithStdin("r2"),
      WithStdin(NoStdin),
      WithEnv(<<"A=1">>),
      WithEnv(<<"B=2", "C=3">>),
      WithEnv(NilEnv) }

MaxOptions == 3

\* The options scenario: NewCommand with every list of up to MaxOptions
\* option functions.
InitOptions ==
    /\ subcommand = "log"
    /\ optFns \in SeqsUpTo(OptionPool, MaxOptions)
    /\ arguments = optsFromFuncs(optFns).arguments
    /\ callerDeadline = NoDeadline
    /\ procStdout = ""
    /\ procStderr = <<>>
    /\ procExitCode = 0
    /\ procHangs = FALSE
    /\ RoutineObservation
    /\ InitState

SpecOptions == InitOptions /\ [][NextArgs]_vars

\* The timeout scenario: one call whose process may hang, under a context
\* without deadline or with one, with fair scheduling.  Time advances, os/exec
\* runs cmd.Cancel once the context is done, and a goroutine inside Read or
\* Close takes its next step whenever it can; a Close blocked in rc.mu.Lock()
\* gets the mutex if it becomes free again and again (sync.Mutex hands a
\* starving waiter the lock).  Whether and when callers call or cancel is up
\* to them.
InitLive ==
    /\ subcommand = "log"
    /\ arguments = <<ConfigArgument("core.test", "1"), SpecSafeValueArgument("HEAD")>>
    /\ callerDeadline \in LifecycleDeadlines
    /\ procStdout \in StdoutInputs
    /\ procStderr \in {<<>>, <<"error: Could not read abc123">>}
    /\ procExitCode = 0
    /\ procHangs \in BOOLEAN
    /\ RoutineObservation
    /\ ArgumentsOnly
    /\ InitState

Fairness ==
    /\ WF_vars(DeadlinePasses)
    /\ WF_vars(CmdCancel)
    /\ \A t \in Threads :
        /\ WF_vars(ReadStdout(t))
        /\ WF_vars(WaitCmdMemo(t))
        /\ WF_vars(WaitCmdWait(t))
        /\ WF_vars(WaitCmdFinish(t))
        /\ SF_vars(CloseLockAcquire(t))

\* The steps of the lifecycle, and those of a Close that finds rc.mu held.
NextLive ==
    \/ Next
    \/ \E t \in Threads : CloseLockWait(t)
    \/ \E t \in Threads : CloseLockAcquire(t)

SpecLive == InitLive /\ [][NextLive]_vars /\ Fairness

\* The stderr capture: one call whose process writes one of StderrSamples and
\* exits with status 1.
InitCapture ==
    /\ subcommand = "log"
    /\ arguments = <<ConfigArgument("core.test", "1"), SpecSafeValueArgument("HEAD")>>
    /\ callerDeadline = NoDeadline
    /\ procStdout = "ab"
    /\ procStderr \in StderrSamples
    /\ procExitCode = 1
    /\ procHangs = FALSE
    /\ RoutineObservation
    /\ ArgumentsOnly
    /\ InitState

SpecCapture == InitCapture /\ [][Next]_vars

\* The overflow scenario: a failing log that writes more than the capture
\* holds, and callers that only Close.
InitOverflow ==
    /\ subcommand = "log"
    /\ arguments = <<ConfigArgument("core.test", "1"), SpecSafeValueArgument("HEAD")>>
    /\ callerDeadline = NoDeadline
    /\ procStdout = ""
    /\ procStderr \in OverflowSamples
    /\ procExitCode = 1
    /\ procHangs = FALSE
    /\ RoutineObservation
    /\ ArgumentsOnly
    /\ InitState

NextOverflow ==
    \/ NewCommand
    \/ ProcWriteStderr
    \/ ProcExit
    \/ CallerCancel
    \/ DeadlinePasses
    \/ CmdCancel
    \/ \E t \in Threads : CloseLock(t)
    \/ \E t \in Threads : WaitCmdMemo(t)
    \/ \E t \in Threads : WaitCmdWait(t)
    \/ \E t \in Threads : WaitCmdFinish(t)

SpecOverflow == InitOverflow /\ [][NextOverflow]_vars

\* The observability layer: one call of each subcommand, closed by its
\* callers, whose process exits on its own or hangs until the context expires,
\* for every combination of the inputs of rc.trace.
InitTrace ==
    /\ subcommand \in TraceSubcommands
    /\ arguments = <<>>
    /\ callerDeadline \in {NoDeadline, Epoch + 90}
    /\ procStdout = ""
    /\ procStderr = <<>>
    /\ procExitCode = 0
    /\ procHangs \in BOOLEAN
    /\ lagMs \in LagSamples
    /\ honeyEnabled \in BOOLEAN
    /\ actor \in Actors
    /\ \E m \in MemoryReports : maxrss = m.maxrss /\ goos = m.goos
    /\ ArgumentsOnly
    /\ InitState

NextTrace ==
    \/ NewCommand
    \/ ProcExit
    \/ DeadlinePasses
    \/ CmdCancel
    \/ \E t \in Threads : CloseLock(t)
    \/ \E t \in Threads : WaitCmdMemo(t)
    \/ \E t \in Threads : WaitCmdWait(t)
    \/ \E t \in Threads : WaitCmdFinish(t)

SpecTrace == InitTrace /\ [][NextTrace]_vars

\* Values of Maxrss up to the largest int64: 0, 1, 1023, 1024, 1025, 600000,
\* 600000 * 1024, 2^31, 2^53 - 1, 2^53, 2^53 + 1, 2^62 and 2^63 - 1.
RssSamples ==
    { Int64(0), Int64(1), Int64(1023), Int64(1024), Int64(1025),
      Int64(600000), Int64(600000 * KiB),
      <<0, 0, 32768, 0>>,
      <<31, 65535, 65535, 65535>>,
      <<32, 0, 0, 0>>,
      <<32, 0, 0, 1>>,
      <<16384, 0, 0, 0>>,
      <<32767, 65535, 65535, 65535>> }

\* The memory scenario: a log that is waited for, with every sample of Maxrss
\* on Linux and on darwin.
InitMemory ==
    /\ subcommand = "log"
    /\ arguments = <<>>
    /\ callerDeadline = NoDeadline
    /\ procStdout = ""
    /\ procStderr = <<>>
    /\ procExitCode = 0
    /\ procHangs \in BOOLEAN
    /\ lagMs = 0
    /\ honeyEnabled = TRUE
    /\ actor = Actor(FALSE, 42)
    /\ maxrss \in RssSamples
    /\ goos \in {"linux", "darwin", "freebsd"}
    /\ ArgumentsOnly
    /\ InitState

SpecMemory == InitMemory /\ [][NextTrace]_vars

\* ------------------------------------------------- concurrent invocations
\* Several invocations of one request, each step of which is a whole call (a
\* NewCommand, a Read, a Close) or a step of a process or of a context.
\* rc.mu makes the Reads and Closes of one invocation exclude one another.
CtxErrOf(i) == fleetCtx[fleet[i].ctx]

\* NewCommand of invocation i for subcommand sub: the context, the stderr
\* buffer and the stdout pipe of the call, Start, and the gauge.  A failed
\* Start calls cancel() and returns no reader.
FleetNewCommand(i) ==
    /\ fleet[i].nc = "new"
    /\ \E sub \in Subcommands, script \in FleetScripts, startOK \in BOOLEAN :
        IF ~startOK
        THEN /\ fleet' = [fleet EXCEPT ![i] =
                    [@ EXCEPT !.nc = "returned",
                              !.ctx = invocationCtx(i, callerHasDeadline),
                              !.ret = Wrap([kind |-> "start error"],
                                           "failed to start git process")]]
             /\ fleetCtx' = ctxCancelOf(i, callerHasDeadline, fleetCtx)
             /\ UNCHANGED <<execRunning, pgid>>
        ELSE /\ fleet' = [fleet EXCEPT ![i] =
                    [@ EXCEPT !.nc = "returned", !.reader = TRUE, !.sub = sub,
                              !.script = script, !.proc = "running",
                              !.ctx = invocationCtx(i, callerHasDeadline),
                              !.stdout = StdoutPipe(i),
                              !.stderr = stderrBuffer(i),
                              !.incs = @ + 1]]
             /\ execRunning' = gaugeInc(execRunning, sub)
             /\ pgid' = [p \in DOMAIN pgid \cup {FleetPid(i)} |->
                            IF p \in DOMAIN pgid THEN pgid[p]
                            ELSE childPgid(FleetPid(i), Pid.gateway, pgid)]
             /\ UNCHANGED fleetCtx
    /\ UNCHANGED <<soloVars, markerWrites, markerErrLogged, signalled, fleetPipe,
                   fleetBuf>>

\* The process of invocation i writes its output: to its stdout pipe, and
\* through the limitWriter to its stderr buffer.
FleetProcWrite(i) ==
    /\ fleet[i].proc = "running"
    /\ ~fleet[i].wrote
    /\ fleetPipe' = [fleetPipe EXCEPT ![fleet[i].stdout] = @ \o fleet[i].script.stdout]
    /\ fleetBuf' = [fleetBuf EXCEPT ![fleet[i].stderr] =
            limitWriterWrite(@, maxStderrCapture - Len(@), fleet[i].script.stderr).buf]
    /\ fleet' = [fleet EXCEPT ![i].wrote = TRUE]
    /\ UNCHANGED <<soloVars, execRunning, markerWrites, markerErrLogged, groupVars,
                   fleetCtx>>

\* The process of invocation i exits on its own.
FleetProcExit(i) ==
    /\ fleet[i].proc = "running"
    /\ fleet[i].wrote
    /\ fleet' = [fleet EXCEPT ![i] =
            [@ EXCEPT !.proc = "exited", !.exitCode = fleet[i].script.code]]
    /\ UNCHANGED <<soloVars, execRunning, markerWrites, markerErrLogged, groupVars,
                   fleetCtx, fleetPipe, fleetBuf>>

\* The caller's context is canceled or, if it has a deadline, expires: so
\* are the contexts derived from it.
FleetCallerDone ==
    /\ fleetCtx[RequestCtx] = Nil
    /\ \E e \in (IF callerHasDeadline THEN {CtxCanceled, CtxDeadlineExceeded}
                  ELSE {CtxCanceled}) :
        fleetCtx' = [c \in DOMAIN fleetCtx |->
                        IF fleetCtx[c] = Nil THEN e ELSE fleetCtx[c]]
    /\ UNCHANGED <<soloVars, execRunning, markerWrites, markerErrLogged, groupVars,
                   fleet, fleetPipe, fleetBuf>>

\* The default timeout of invocation i expires: the timer of its own context.
FleetTimeout(i) ==
    /\ fleet[i].reader
    /\ fleet[i].ctx # RequestCtx
    /\ fleetCtx[fleet[i].ctx] = Nil
    /\ fleetCtx' = [fleetCtx EXCEPT ![fleet[i].ctx] = CtxDeadlineExceeded]
    /\ UNCHANGED <<soloVars, execRunning, markerWrites, markerErrLogged, groupVars,
                   fleet, fleetPipe, fleetBuf>>

\* cmd.Cancel of invocation i, once its context is done while its process
\* runs: syscall.Kill(-cmd.Process.Pid, SIGKILL).  Every running git process
\* that receives the signal is killed.
FleetCmdCancel(i) ==
    /\ fleet[i].proc = "running"
    /\ CtxErrOf(i) # Nil
    /\ LET receivers == KillReceivers(-FleetPid(i), pgid)
       IN  /\ signalled' = signalled \cup receivers
           /\ fleet' = [j \in Invocations |->
                    IF FleetPid(j) \in receivers /\ fleet[j].proc = "running"
                    THEN [fleet[j] EXCEPT !.proc = "exited", !.exitCode = -1]
                    ELSE fleet[j]]
    /\ UNCHANGED <<soloVars, execRunning, markerWrites, markerErrLogged, pgid,
                   fleetCtx, fleetPipe, fleetBuf>>

\* The once-body of waitCmd of invocation i, and the return from the call op
\* ("Read" or "Close") that ran it: cmd.Wait, the classification (with the marker
\* write when stderr matches), rc.trace with the gauge, and rc.ctxCancel.
FleetWait(i, op) ==
    \E setOK \in BOOLEAN :
        LET r       == fleet[i]
            werr    == IF r.exitCode = 0 THEN Nil ELSE ExitError(r.exitCode)
            stderr  == fleetBuf[r.stderr]
            setErr  == IF setOK THEN Nil ELSE [kind |-> "config error"]
            corrupt == waitReportsFailure(werr) /\ checkMaybeCorruptRepo(stderr, setErr)
            matches == waitReportsFailure(werr) /\ stdErrIndicatesCorruption(stderr)
            outcome == classify(werr, corrupt, CtxErrOf(i), <<"git", r.sub>>,
                                stderr, r.exitCode)
        IN  /\ fleet' = [fleet EXCEPT ![i] =
                    [@ EXCEPT !.waited = TRUE, !.rcErr = outcome, !.waits = @ + 1,
                              !.decs = @ + 1,
                              !.ret = IF op = "Read" THEN readAfterWait(outcome)
                                      ELSE outcome]]
            /\ markerWrites' = IF matches THEN markerWrites + 1 ELSE markerWrites
            /\ markerErrLogged' = IF matches /\ setErr # Nil
                                  THEN markerErrLogged + 1 ELSE markerErrLogged
            /\ execRunning' = gaugeDec(execRunning, r.sub)
            /\ fleetCtx' = ctxCancelOf(i, callerHasDeadline, fleetCtx)

\* Read on the reader of invocation i: the error of a pipe closed by Wait,
\* or the bytes in the pipe, or, at end-of-stream, waitCmd.
FleetRead(i) ==
    /\ fleet[i].reader
    /\ IF fleet[i].waited
       THEN /\ fleet' = [fleet EXCEPT ![i].ret = ErrClosed]
            /\ UNCHANGED <<execRunning, markerWrites, markerErrLogged, fleetCtx,
                           fleetPipe>>
       ELSE IF fleetPipe[fleet[i].stdout] # ""
       THEN /\ fleet' = [fleet EXCEPT ![i] =
                    [@ EXCEPT !.got = @ \o fleetPipe[fleet[i].stdout], !.ret = Nil]]
            /\ fleetPipe' = [fleetPipe EXCEPT ![fleet[i].stdout] = ""]
            /\ UNCHANGED <<execRunning, markerWrites, markerErrLogged, fleetCtx>>
       ELSE /\ fleet[i].proc = "exited"
            /\ FleetWait(i, "Read")
            /\ UNCHANGED fleetPipe
    /\ UNCHANGED <<soloVars, groupVars, fleetBuf>>

\* Close on the reader of invocation i: waitCmd, which returns the memoized
\* outcome once it has run.
FleetClose(i) ==
    /\ fleet[i].reader
    /\ IF fleet[i].waited
       THEN /\ fleet' = [fleet EXCEPT ![i].ret = fleet[i].rcErr]
            /\ UNCHANGED <<execRunning, markerWrites, markerErrLogged, fleetCtx>>
       ELSE /\ fleet[i].proc = "exited"
            /\ FleetWait(i, "Close")
    /\ UNCHANGED <<soloVars, groupVars, fleetPipe, fleetBuf>>

InitFleet ==
    /\ subcommand = "log"
    /\ arguments = <<>>
    /\ callerDeadline \in LifecycleDeadlines
    /\ procStdout = ""
    /\ procStderr = <<>>
    /\ procExitCode = 0
    /\ procHangs = FALSE
    /\ RoutineObservation
    /\ ArgumentsOnly
    /\ InitState

NextFleet ==
    \/ \E i \in Invocations : FleetNewCommand(i)
    \/ \E i \in Invocations : FleetProcWrite(i)
    \/ \E i \in Invocations : FleetProcExit(i)
    \/ FleetCallerDone
    \/ \E i \in Invocations : FleetTimeout(i)
    \/ \E i \in Invocations : FleetCmdCancel(i)
    \/ \E i \in Invocations : FleetRead(i)
    \/ \E i \in Invocations : FleetClose(i)

SpecFleet == InitFleet /\ [][NextFleet]_vars

\* ================================================================== claims
\* ------------------------------------------------------- command builder
IsConfig(a) == a.type = "ConfigArgument"

IsOther(a) == a.type \in {"FlagArgument", "SpecSafeValueArgument", "ValueFlagArgument"}

\* An argument list that passes validation: only the four variants, and no
\* SpecSafeValueArgument beginning with '-'.
PassesValidation(args) ==
    \A i \in 1..Len(args) :
        /\ IsConfig(args[i]) \/ IsOther(args[i])
        /\ args[i].type = "SpecSafeValueArgument" => ~HasPrefix(args[i].string, "-")

\* The token of a non-config argument.
TokenOf(a) ==
    IF a.type = "ValueFlagArgument" THEN a.Flag \o "=" \o a.Value ELSE a.string

\* The token list the ordering rule prescribes: the k-th config argument at
\* tokens 2k-1 and 2k, the subcommand next, the k-th other argument behind it.
ExpectedTokens(sub, args) ==
    LET configs == SelectSeq(args, IsConfig)
        others  == SelectSeq(args, IsOther)
        nc      == Len(configs)
    IN  [j \in 1..(2 * nc + 1 + Len(others)) |->
            IF j <= 2 * nc
            THEN IF j % 2 = 1 THEN "-c"
                 ELSE configs[j \div 2].Key \o "=" \o configs[j \div 2].Value
            ELSE IF j = 2 * nc + 1 THEN sub
            ELSE TokenOf(others[j - 2 * nc - 1])]

ValidationErrorKinds == {"invalid git revision spec", "unknown argument type"}

\* C1: for every subcommand and every argument list that passes validation,
\* the tokens built are: "-c", "key=value" for each ConfigArgument in input
\* order, then the subcommand, then one token per other argument in input
\* order, however config and other arguments are interleaved; log +
\* Config{core.test,1} + SpecSafeValue HEAD gives [-c, core.test=1, log, HEAD].
C1_TokenOrder ==
    (ncState = "returned" /\ PassesValidation(arguments)) =>
        /\ ncErr.kind \notin ValidationErrorKinds
        /\ cmdArgs = <<"git">> \o ExpectedTokens(subcommand, arguments)
        /\ (/\ subcommand = "log"
            /\ arguments = <<ConfigArgument("core.test", "1"),
                             SpecSafeValueArgument("HEAD")>>)
           => cmdArgs = <<"git", "-c", "core.test=1", "log", "HEAD">>

\* A call was built from a list in which a config argument follows another
\* argument and precedes a third.
C1_Witness ==
    /\ ncState = "returned"
    /\ PassesValidation(arguments)
    /\ Len(arguments) = 3
    /\ IsOther(arguments[1]) /\ IsConfig(arguments[2]) /\ IsOther(arguments[3])
    /\ cmdArgs[2] = "-c"

HasUnsafeSpec(args) ==
    \E i \in 1..Len(args) :
        /\ args[i].type = "SpecSafeValueArgument"
        /\ HasPrefix(args[i].string, "-")

\* C2: when the argument list contains, at any position, a
\* SpecSafeValueArgument beginning with '-', NewCommand returns a validation
\* error and a nil reader, and launches nothing: Start is not called, the
\* running gauge is not incremented, no span is opened and no timeout context
\* is installed.
C2_UnsafeSpecRejected ==
    (ncState = "returned" /\ HasUnsafeSpec(arguments)) =>
        /\ ncErr.kind \in ValidationErrorKinds
        /\ ncReader = FALSE
        /\ startCalls = 0
        /\ procState = "none"
        /\ \A c \in Subcommands : execRunning[c] = 0
        /\ span = "none"
        /\ timeoutInstalled = FALSE

\* NewCommand has returned for a list whose last argument is the unsafe one.
C2_Witness ==
    /\ ncState = "returned"
    /\ Len(arguments) = 3
    /\ arguments[3] = SpecSafeValueArgument("-rf")
    /\ IsOther(arguments[1]) /\ arguments[1] # SpecSafeValueArgument("-rf")
    /\ IsConfig(arguments[2])
    /\ ncErr.kind = "invalid git revision spec"

\* --------------------------------------------------------------- the wait
\* C3: under every interleaving of Read and Close calls from several
\* threads, cmd.Wait is invoked at most once, and it has been invoked exactly
\* once as soon as a Close or an EOF-observing Read has returned.
C3_WaitAtMostOnce ==
    /\ waitCount <= 1
    /\ (nClose > 0 \/ nEofRead > 0) => waitCount = 1

\* One thread's Read saw end-of-stream and another thread's Close returned.
C3_Witness ==
    /\ nEofRead > 0 /\ nClose > 0
    /\ \E t, u \in Threads :
        /\ t # u
        /\ ret[t].op = "Read" /\ ret[t].eof
        /\ ret[u].op = "Close"

\* Thread t returns from Close in this step.
CloseReturns(t) == pc[t] \in {"cWait", "cFinish"} /\ pc'[t] = "idle"

\* C4: once the wait has completed (by a Close or by an EOF-observing Read),
\* every Close returns the memoized outcome, the same value each time, and
\* nothing is done again: no wait, no metric update, no span end, no marker
\* write.
C4_CloseIdempotent ==
    [][waitOnce =>
        /\ rcErr' = rcErr
        /\ waitCount' = waitCount
        /\ execRunning' = execRunning
        /\ execDurationObs' = execDurationObs
        /\ span' = span /\ spanEnds' = spanEnds /\ spanErr' = spanErr
        /\ markerWrites' = markerWrites /\ markerErrLogged' = markerErrLogged
        /\ \A t \in Threads : CloseReturns(t) => ret'[t].err = rcErr]_vars

\* Two Closes have returned the error of a failed command, the later one after
\* the wait.
C4_Witness ==
    /\ waitOnce
    /\ nClose >= 2
    /\ rcErr # Nil
    /\ \A t \in Threads : ret[t].op = "Close" /\ ret[t].err = rcErr

\* The wait has completed and cmd.Wait reported a failure.
WaitFailed == waitOnce /\ waitErr # Nil

\* C5, as stated: when the wait fails and the context is done at that moment,
\* the outcome is the context's error, whatever stderr holds.
C5_CancellationAlwaysFirst ==
    (WaitFailed /\ ctxAtWait # Nil) => rcErr = ctxAtWait

\* C5, amended: when the wait fails and the context is done at that moment,
\* the outcome is the context's error unless the captured stderr matches a
\* corruption pattern, in which case it is ErrRepoCorrupted.
C5_CancellationBeforeGenericFailure ==
    (WaitFailed /\ ctxAtWait # Nil) =>
        rcErr = IF stdErrIndicatesCorruption(stderrBuf)
                THEN ErrRepoCorrupted(stderrBuf)
                ELSE ctxAtWait

\* A killed command whose context had passed its deadline returned the
\* deadline error.
C5_Witness ==
    /\ WaitFailed
    /\ ctxAtWait = CtxDeadlineExceeded
    /\ killSignals = 1
    /\ rcErr = CtxDeadlineExceeded
    /\ \E t \in Threads : ret[t].err = CtxDeadlineExceeded

IsCancellation(e) == e \in {CtxCanceled, CtxDeadlineExceeded}

IsCorruptionSignal(e) == e.kind = "ErrRepoCorrupted"

IsCommandFailed(e) == e.kind = "CommandFailedError"

\* C6: when the wait fails, the memoized outcome is not nil and is of exactly
\* one of the three kinds (cancellation, ErrRepoCorrupted, CommandFailedError),
\* whichever of Read-at-EOF and Close ran the wait; the call that ran it and
\* every later Close return that outcome.
C6_ExactlyOneFailureKind ==
    WaitFailed =>
        /\ rcErr # Nil
        /\ Cardinality({k \in {"cancel", "corrupt", "failed"} :
                \/ k = "cancel" /\ IsCancellation(rcErr)
                \/ k = "corrupt" /\ IsCorruptionSignal(rcErr)
                \/ k = "failed" /\ IsCommandFailed(rcErr)}) = 1
        /\ IsCommandFailed(rcErr) => ~IsCancellation(rcErr.Inner)
        /\ \A t \in Threads :
            (ret[t].op = "Close" \/ ret[t].eof) => ret[t].err = rcErr

\* A failed command was waited for by a Read at end-of-stream and closed
\* afterwards.
C6_Witness ==
    /\ WaitFailed
    /\ nEofRead = 1 /\ nClose >= 1
    /\ IsCommandFailed(rcErr)

RECURSIVE Concat(_)
Concat(chunks) ==
    IF chunks = <<>> THEN "" ELSE Head(chunks) \o Concat(Tail(chunks))

FirstBytes(s, n) == IF Len(s) <= n THEN s ELSE SubSeq(s, 1, n)

\* C7: when the wait fails and the context is not done: if the captured
\* stderr matches a corruption pattern the outcome is ErrRepoCorrupted with
\* the captured stderr as Reason; otherwise it is a CommandFailedError with
\* the executed argument list, the captured stderr (the first 1024 bytes at
\* most of what the process wrote) and the exit code of the process.
C7_FailureClassification ==
    (WaitFailed /\ ctxAtWait = Nil) =>
        /\ stderrBuf = FirstBytes(Concat(procStderr), 1024)
        /\ IF stdErrIndicatesCorruption(stderrBuf)
           THEN rcErr = ErrRepoCorrupted(stderrBuf)
           ELSE /\ IsCommandFailed(rcErr)
                /\ rcErr.args = <<"git">> \o ExpectedTokens(subcommand, arguments)
                /\ rcErr.Stderr = stderrBuf
                /\ Len(rcErr.Stderr) <= 1024
                /\ rcErr.ExitStatus = procExitCode
                /\ rcErr.ExitStatus # 0
                /\ rcErr.Inner = ExitError(procExitCode)

\* A command that wrote more than 1024 bytes to stderr failed with a
\* CommandFailedError holding 1024 of them.
C7_Witness ==
    /\ WaitFailed /\ ctxAtWait = Nil
    /\ IsCommandFailed(rcErr)
    /\ Len(Concat(procStderr)) > 1024
    /\ Len(rcErr.Stderr) = 1024

\* ------------------------------------------------------------ the stream
\* Thread t is the only caller of the reader so far.
SingleCaller(t) ==
    \A u \in Threads \ {t} : pc[u] = "idle" /\ ret[u].op = "none"

\* The process wrote all of procStdout and exited with status 0.
ExitedZero ==
    procState = "exited" /\ exitCode = 0 /\ outPos = Len(procStdout)

\* C8: when the process writes B to stdout and exits 0, a single-threaded
\* caller receives B byte for byte, in order, up to the Read that returns
\* io.EOF, and a Close after that returns nil.
C8_StreamIntegrity ==
    \A t \in Threads :
        SingleCaller(t) =>
            /\ got[t] = SubSeq(procStdout, 1, Len(got[t]))
            /\ (ExitedZero /\ ret[t].op = "Read" /\ ret[t].eof) =>
                    /\ got[t] = procStdout
                    /\ ret[t].n = 0 /\ ret[t].err = EOF
            /\ (ExitedZero /\ ret[t].op = "Close" /\ ret[t].late) =>
                    /\ got[t] = procStdout
                    /\ ret[t].err = Nil

\* A single caller read "ab", read io.EOF and closed.
C8_Witness ==
    /\ SingleCaller("t1")
    /\ ExitedZero
    /\ procStdout = "ab"
    /\ opsIssued = 3
    /\ got["t1"] = "ab"
    /\ nEofRead = 1
    /\ ret["t1"].op = "Close" /\ ret["t1"].late /\ ret["t1"].err = Nil

\* C9: the Read that first observes end-of-stream performs the wait before it
\* returns: it returns the classified error if the command failed and io.EOF
\* only if the outcome of the wait is nil.
C9_EofReadWaits ==
    \A t \in Threads :
        (ret[t].op = "Read" /\ ret[t].eof) =>
            /\ waitOnce /\ waitCount = 1
            /\ (ret[t].err = EOF) <=> (rcErr = Nil)
            /\ waitErr # Nil => (ret[t].err = rcErr /\ ret[t].err # EOF)
            /\ waitErr = Nil => ret[t].err = EOF

\* A Read at end-of-stream returned the CommandFailedError of a command that
\* exited with status 1.
C9_Witness ==
    \E t \in Threads :
        /\ ret[t].op = "Read" /\ ret[t].eof
        /\ exitCode = 1
        /\ IsCommandFailed(ret[t].err)

\* C10: after a Read has returned the end-of-stream result, every later Read
\* returns that same outcome (io.EOF for a successful command, the memoized
\* error for a failed one) and cmd.Wait is not invoked again.
C10_TrailingReadSameOutcome ==
    \A t \in Threads :
        (ret[t].op = "Read" /\ ret[t].late) =>
            /\ ret[t].err = eofOutcome
            /\ waitCount = 1

\* ------------------------------------------------------------- deadlines
\* C11: every launched invocation runs under a context that has a deadline:
\* when the caller's context has none, NewCommand installs the default timeout
\* and the deadline is one minute after the call; when the caller's context
\* has a deadline, 30 or 90 seconds away, that deadline is the context's and
\* no default timeout is installed.
C11_DeadlineAlwaysSet ==
    ncReader =>
        /\ ctxDeadline # NoDeadline
        /\ callerDeadline = NoDeadline =>
                /\ timeoutInstalled
                /\ ctxDeadline = Epoch + 60
        /\ callerDeadline # NoDeadline =>
                /\ ~timeoutInstalled
                /\ ctxDeadline = callerDeadline
                /\ ctxDeadline \in {Epoch + 30, Epoch + 90}

\* A command was launched for a caller whose context had no deadline.
C11_Witness ==
    /\ ncReader
    /\ procState = "running"
    /\ callerDeadline = NoDeadline
    /\ timeoutInstalled
    /\ ctxDeadline = Epoch + 60

\* A launched command that hangs, under the default timeout.
HangingNoDeadline == ncReader /\ procHangs /\ callerDeadline = NoDeadline

\* The default bound of such a command has elapsed.
HangTimedOut ==
    /\ HangingNoDeadline
    /\ ctxErr = CtxDeadlineExceeded
    /\ clock = Epoch + 60

\* Thread t is inside waitCmd, called from Close or from a Read that saw io.EOF.
InWaitCmd(t) == pc[t] \in {"cWait", "cFinish", "rWait", "rFinish"}

\* Thread t has returned err from its call.
Returned(t, err) == pc[t] = "idle" /\ ret[t].op # "none" /\ ret[t].err = err

\* C12, as stated: a command that hangs under a context without deadline has
\* its bound elapse 60 seconds after the call unless the caller cancels first;
\* then the process group is killed, and a Close or EOF-observing Read that
\* is pending or made later returns the context's deadline error.
C12_TimeoutReturnsDeadlineError ==
    /\ HangingNoDeadline ~> (ctxErr = CtxCanceled \/ HangTimedOut)
    /\ HangTimedOut ~> (killSignals = 1 /\ procState = "exited")
    /\ \A t \in Threads :
        (HangTimedOut /\ InWaitCmd(t)) ~> Returned(t, CtxDeadlineExceeded)

\* What a wait returns after the timeout: corruption seen on stderr is reported
\* before the context is looked at.
TimeoutOutcome ==
    IF stdErrIndicatesCorruption(stderrBuf)
    THEN ErrRepoCorrupted(stderrBuf)
    ELSE CtxDeadlineExceeded

\* C12, amended: as above, but the call returns ErrRepoCorrupted instead of
\* the deadline error when the captured stderr matches a corruption pattern.
C12_TimeoutEndsCall ==
    /\ HangingNoDeadline ~> (ctxErr = CtxCanceled \/ HangTimedOut)
    /\ HangTimedOut ~> (killSignals = 1 /\ procState = "exited")
    /\ \A t \in Threads :
        (HangTimedOut /\ InWaitCmd(t)) ~> Returned(t, TimeoutOutcome)

\* A Close on a hanging command returned the deadline error after the group
\* was killed at the end of the default bound.
C12_Witness ==
    /\ HangTimedOut
    /\ killSignals = 1
    /\ exitCode = -1
    /\ \E t \in Threads :
        /\ ret[t].op = "Close"
        /\ Returned(t, CtxDeadlineExceeded)

\* --------------------------------------------------------- process groups
\* The processes of the invocation's group.
InvocationGroup == {p \in DOMAIN pgid : pgid[p] = Pid.git}

\* C13: the git process a call starts is the leader of a new process group
\* that holds it and the helpers it spawns and no other process; when the
\* context is canceled or expires, the SIGKILL of cmd.Cancel reaches exactly
\* the processes of that group, helpers included, and never the gateway or the
\* process of another invocation.
C13_KillWholeGroupOnly ==
    /\ procState # "none" =>
        /\ pgid[Pid.git] = Pid.git
        /\ InvocationGroup = DOMAIN pgid \ {Pid.gateway, Pid.other}
        /\ SpawnsHelper(subcommand) => Pid.helper \in InvocationGroup
    /\ killSignals > 0 =>
        /\ ctxErr # Nil
        /\ signalled = InvocationGroup
        /\ Pid.git \in signalled
    /\ signalled \cap {Pid.gateway, Pid.other} = {}
    /\ killSignals = 0 => signalled = {}

\* The deadline passed and the kill reached git fetch and its helper.
C13_Witness ==
    /\ ctxErr = CtxDeadlineExceeded
    /\ killSignals = 1
    /\ signalled = {Pid.git, Pid.helper}
    /\ DOMAIN pgid = {Pid.gateway, Pid.other, Pid.git, Pid.helper}

\* ---------------------------------------------------------- launch errors
\* NewCommand returned an error of the launch (not of the validation).
LaunchFailed == ncState = "returned" /\ ncErr.kind = "wrapped"

\* C14: when StdoutPipe or Start fails, NewCommand returns a nil reader and
\* an error wrapping the cause; no process and no reader exist, the running
\* gauge was not incremented, cancel() was called once (which cancels the
\* default-timeout context if one was installed), and the span was ended
\* once, with the returned error.
C14_LaunchFailureLeavesNothing ==
    LaunchFailed =>
        /\ ncReader = FALSE
        /\ \/ /\ ncErr = Wrap([kind |-> "pipe error"], "failed to create stdout pipe")
              /\ startCalls = 0
           \/ /\ ncErr = Wrap([kind |-> "start error"], "failed to start git process")
              /\ startCalls = 1
        /\ procState = "none"
        /\ DOMAIN pgid = DOMAIN InitialProcesses
        /\ \A c \in Subcommands : execRunning[c] = 0
        /\ cancelCalls = 1
        /\ timeoutInstalled => ctxErr = CtxCanceled
        /\ span = "ended" /\ spanEnds = 1 /\ spanErr = ncErr
        /\ waitCount = 0 /\ opsIssued = 0 /\ execDurationObs = 0

\* Start failed for a call under the default timeout.
C14_Witness ==
    /\ LaunchFailed
    /\ ncErr.cause = [kind |-> "start error"]
    /\ timeoutInstalled
    /\ ctxErr = CtxCanceled
    /\ span = "ended"

\* ---------------------------------------------------------- stderr capture
\* What the process has written to stderr so far.
Written == Concat(SubSeq(procStderr, 1, errPos))

\* C15: after every sequence of Writes the capture buffer holds the first
\* min(total written, 1024) bytes of the concatenated writes, the remaining
\* capacity N is 1024 minus that and never negative, and the last Write
\* returned len(p) and a nil error, also when p was cut or discarded.
C15_BoundedCapture ==
    /\ stderrBuf = FirstBytes(Written, 1024)
    /\ Len(stderrBuf) = (IF Len(Written) < 1024 THEN Len(Written) ELSE 1024)
    /\ Len(stderrBuf) <= 1024
    /\ lwN >= 0
    /\ lwN = 1024 - Len(stderrBuf)
    /\ errPos > 0 =>
        /\ lastWrite.len = Len(procStderr[errPos])
        /\ lastWrite.n = lastWrite.len
        /\ lastWrite.err = Nil

\* A Write was cut at the cap and the next one was discarded as a whole.
C15_Witness ==
    /\ errPos = 3
    /\ Len(Concat(SubSeq(procStderr, 1, 1))) < 1024
    /\ Len(Concat(SubSeq(procStderr, 1, 2))) > 1024
    /\ Len(stderrBuf) = 1024
    /\ lwN = 0
    /\ lastWrite = [len |-> 5, n |-> 5, err |-> Nil]

\* The positions at which the lines of s begin.
LineStarts(s) ==
    {1} \cup {j + 1 : j \in {i \in 1..Len(s) : SubSeq(s, i, i) = "\n"}}

\* Some line of s begins with prefix.
SomeLineBeginsWith(s, prefix) ==
    \E i \in LineStarts(s) : HasPrefix(SubSeq(s, i, Len(s)), prefix)

\* One of the two pattern classes matches s.
InPatternClass(s) ==
    \/ SomeLineBeginsWith(s, "error: Could not read ")
    \/ SomeLineBeginsWith(s, "error: packfile ")
    \/ SomeLineBeginsWith(s,
            "fatal: commit-graph requires overflow generation data but has none")

\* C16: stdErrIndicatesCorruption is true exactly when some line of the text
\* begins with "error: Could not read " or "error: packfile ", or with the
\* commit-graph message; each alone suffices.  It holds of the captured stderr
\* at every moment and decides whether a failed wait reports corruption;
\* "error: Could not read abc123" is corruption, "fatal: unknown flag" is not.
C16_CorruptionPatterns ==
    /\ stdErrIndicatesCorruption(stderrBuf) <=> InPatternClass(stderrBuf)
    /\ (waitOnce /\ waitErr # Nil) =>
            (IsCorruptionSignal(rcErr) <=> InPatternClass(stderrBuf))
    /\ stdErrIndicatesCorruption("error: Could not read abc123")
    /\ ~stdErrIndicatesCorruption("fatal: unknown flag")

\* A failed command whose second stderr line is the commit-graph message, and
\* no line of which matches the other class, was classified as corrupt.
C16_Witness ==
    /\ waitOnce
    /\ procStderr = <<"fatal: bad object\n",
                      "fatal: commit-graph requires overflow generation data but has none">>
    /\ stderrBuf = Concat(procStderr)
    /\ ~objectOrPackFileCorruptionRegex(stderrBuf)
    /\ IsCorruptionSignal(rcErr)

\* ------------------------------------------------------ corruption marker
\* matchAtWait is what it is named after.
MatchRecorded ==
    waitOnce => (matchAtWait <=> (waitErr # Nil /\ stdErrIndicatesCorruption(stderrBuf)))

\* The unix time at which the wait was classified: the clock moves only when
\* the deadline passes.
TimeOfWait == IF ctxAtWait = CtxDeadlineExceeded THEN ctxDeadline ELSE Epoch

\* C17: whenever a failed wait's captured stderr matches a corruption pattern,
\* exactly one config write was issued, of key sourcegraph.maybeCorruptRepo
\* and of the unix time of that moment in decimal, under a context that is not
\* done, also when the context of the command was canceled or had expired;
\* and no write is issued otherwise.
C17_MarkerWrittenUnderOwnContext ==
    /\ (WaitFailed /\ matchAtWait) =>
        /\ markerWrites = 1
        /\ markerCall.key = "sourcegraph.maybeCorruptRepo"
        /\ markerCall.value = FormatInt(TimeOfWait)
        /\ Len(markerCall.value) = 4
        /\ markerCall.ctxErr = Nil
    /\ ~(WaitFailed /\ matchAtWait) =>
        /\ markerWrites = 0
        /\ markerCall = NoCall

\* The marker was written for a command killed at the caller's deadline.
C17_Witness ==
    /\ WaitFailed
    /\ ctxAtWait = CtxDeadlineExceeded
    /\ killSignals = 1
    /\ matchAtWait
    /\ markerWrites = 1
    /\ markerCall.value = FormatInt(Epoch + 30)
    /\ markerCall.ctxErr = Nil

\* C18: when stderr matches a corruption pattern the outcome of the wait is
\* ErrRepoCorrupted whether the marker write succeeded or failed; a failed
\* write is logged once and its error is returned from no Read or Close.
C18_MarkerFailureNotPropagated ==
    /\ (WaitFailed /\ matchAtWait) =>
        /\ rcErr = ErrRepoCorrupted(stderrBuf)
        /\ markerErrLogged \in {0, 1}
        /\ \A t \in Threads :
            (ret[t].op = "Close" \/ ret[t].eof) =>
                ret[t].err = ErrRepoCorrupted(stderrBuf)
    /\ markerErrLogged <= markerWrites
    /\ rcErr.kind # "config error"
    /\ \A t \in Threads : ret[t].err.kind # "config error"

\* The marker write failed and Close returned ErrRepoCorrupted.
C18_Witness ==
    /\ WaitFailed
    /\ markerWrites = 1
    /\ markerErrLogged = 1
    /\ \E t \in Threads :
        /\ ret[t].op = "Close"
        /\ Returned(t, ErrRepoCorrupted(stderrBuf))

\* ------------------------------------------------------------ error chains
\* The chain errors.Is and errors.As walk: e, what it unwraps to, and so on.
RECURSIVE ErrorChain(_)
ErrorChain(e) == IF e = Nil THEN {} ELSE {e} \cup ErrorChain(Unwrap(e))

\* The causes of a launch failure: the errors of StdoutPipe and of Start.
LaunchCauses == {[kind |-> "pipe error"], [kind |-> "start error"]}

\* C19, as stated: a launch error has the error of the operating system in
\* its chain, and the outcome of every failed wait, whether cancellation,
\* corruption or command failure, has the error returned by cmd.Wait in its
\* chain.
C19_CauseAlwaysInChain ==
    /\ LaunchFailed => ErrorChain(ncErr) \cap LaunchCauses # {}
    /\ WaitFailed => waitErr \in ErrorChain(rcErr)

\* C19, amended: a launch error has the error of the operating system in its
\* chain and a CommandFailedError has the error returned by cmd.Wait in its
\* chain (as Inner); a cancellation outcome is the context's error and a
\* corruption outcome is ErrRepoCorrupted with the captured stderr, and the
\* chains of these two hold nothing else, so the error of cmd.Wait is dropped.
C19_CauseInChainOfLaunchAndCommandFailure ==
    /\ LaunchFailed =>
        /\ ErrorChain(ncErr) \cap LaunchCauses # {}
        /\ ncErr.cause \in LaunchCauses
    /\ WaitFailed =>
        /\ IsCommandFailed(rcErr) =>
            /\ waitErr \in ErrorChain(rcErr)
            /\ rcErr.Inner = waitErr
        /\ IsCancellation(rcErr) =>
            /\ rcErr = ctxAtWait
            /\ ErrorChain(rcErr) = {rcErr}
            /\ waitErr \notin ErrorChain(rcErr)
        /\ IsCorruptionSignal(rcErr) =>
            /\ rcErr = ErrRepoCorrupted(stderrBuf)
            /\ ErrorChain(rcErr) = {rcErr}
            /\ waitErr \notin ErrorChain(rcErr)

\* A command that exited with status 1 returned a CommandFailedError whose
\* chain ends in the ExitError of cmd.Wait.
C19_Witness ==
    /\ WaitFailed
    /\ IsCommandFailed(rcErr)
    /\ waitErr = ExitError(1)
    /\ ErrorChain(rcErr) = {rcErr, ExitError(1)}
    /\ \E t \in Threads : Returned(t, rcErr)

\* ------------------------------------------------------ unknown arguments
\* Argument a is none of the four variants.
IsUnknown(a) == ~(IsConfig(a) \/ IsOther(a))

HasUnknown(args) == \E i \in 1..Len(args) : IsUnknown(args[i])

\* The position of the first argument that is none of the four variants.
FirstUnknown(args) ==
    CHOOSE i \in 1..Len(args) :
        IsUnknown(args[i]) /\ \A j \in 1..(i - 1) : ~IsUnknown(args[j])

SlowAtWait == waitOnce /\ isSlow(traceDuration, subcommand)

\* C21, as stated: for every slow invocation the event is sent to the event
\* sink, whether or not honey is enabled.
C21_SlowAlwaysSent ==
    SlowAtWait => eventsSent = 1

\* C21, amended: for every slow invocation the event is built, whether or not
\* honey is enabled, with the sample rate of HoneySampleRate set on it, and is
\* logged once with the "Long exec request" warning; it is sent to the event
\* sink exactly when honey is enabled.  An invocation that is not slow builds
\* and sends the event exactly when honey is enabled and logs no warning.
C21_SlowAlwaysBuiltAndLogged ==
    /\ SlowAtWait =>
        /\ event # NoEvent
        /\ event.sampleRate = HoneySampleRate(subcommand, actor)
        /\ event.cmd = subcommand
        /\ event.cmd_duration_ms = traceDuration
        /\ slowWarnings = 1
        /\ eventsSent = (IF honeyEnabled THEN 1 ELSE 0)
    /\ (waitOnce /\ ~isSlow(traceDuration, subcommand)) =>
        /\ (event # NoEvent) <=> honeyEnabled
        /\ slowWarnings = 0
        /\ eventsSent = (IF honeyEnabled THEN 1 ELSE 0)
    /\ ~waitOnce => (event = NoEvent /\ eventsSent = 0 /\ slowWarnings = 0)

\* A git log that took 5001 ms with honey disabled: the event was built and
\* logged and not sent.
C21_Witness ==
    /\ SlowAtWait
    /\ subcommand = "log"
    /\ traceDuration = 5001
    /\ ~honeyEnabled
    /\ event # NoEvent
    /\ slowWarnings = 1
    /\ eventsSent = 0

\* The thresholds as stated, in milliseconds: 1 minute, 5 seconds, 10 seconds
\* and 2.5 seconds.
StatedThreshold(sub) ==
    IF sub = "archive" THEN 60000
    ELSE IF sub \in {"blame", "log", "show", "ls-tree"} THEN 5000
    ELSE IF sub = "fetch" THEN 10000
    ELSE 2500

\* C22: shortGitCommandSlow maps archive to 1 minute, blame, log, show and
\* ls-tree to 5 seconds, fetch to 10 seconds and every other subcommand to 2.5
\* seconds; and whatever the actor, the memory report and honey are, an
\* invocation is classified slow (and logged as such) exactly when the
\* duration rc.trace measured is strictly greater than that threshold.
C22_SlowThresholds ==
    /\ \A c \in MetricLabels : shortGitCommandSlow(c) = StatedThreshold(c)
    /\ waitOnce =>
        /\ traceDuration = (IF clock > Epoch /\ ctxAtWait = CtxDeadlineExceeded
                            THEN (ctxDeadline - Epoch) * 1000 ELSE 0) + lagMs
        /\ (slowWarnings = 1) <=> (traceDuration > StatedThreshold(subcommand))
        /\ (slowWarnings = 0) <=> (traceDuration <= StatedThreshold(subcommand))

\* A git archive that was killed at the default timeout and waited for at
\* once took exactly one minute and was not classified slow.
C22_Witness ==
    /\ waitOnce
    /\ subcommand = "archive"
    /\ traceDuration = 60000
    /\ killSignals = 1
    /\ slowWarnings = 0

\* ------------------------------------------------- concurrent invocations
\* The started invocations of subcommand c whose wait has not completed.
RunningOf(c) ==
    {i \in Invocations : fleet[i].reader /\ fleet[i].sub = c /\ ~fleet[i].waited}

\* C23: under every interleaving of the NewCommand, Read and Close calls of
\* concurrent invocations, the running gauge of each subcommand equals the
\* number of started invocations of that subcommand whose wait has not
\* completed, and is never negative; each invocation increments it once, when
\* it starts, and decrements it once, at its single wait, and not at all if
\* its launch failed; it is zero once every started invocation has been
\* closed or read to end-of-stream.
C23_GaugeCountsRunning ==
    /\ \A c \in MetricLabels :
        /\ execRunning[c] = Cardinality(RunningOf(c))
        /\ execRunning[c] >= 0
    /\ \A i \in Invocations :
        /\ fleet[i].incs = (IF fleet[i].reader THEN 1 ELSE 0)
        /\ fleet[i].decs = (IF fleet[i].waited THEN 1 ELSE 0)
        /\ fleet[i].waits = fleet[i].decs
    /\ (\A i \in Invocations : fleet[i].reader => fleet[i].waited) =>
            \A c \in MetricLabels : execRunning[c] = 0

\* Two git log commands were started; one was read to end-of-stream and
\* closed, the other still runs.
C23_Witness ==
    /\ \A i \in Invocations : fleet[i].reader /\ fleet[i].sub = "log"
    /\ fleet[1].waited /\ fleet[1].got = "a" /\ fleet[1].ret = Nil
    /\ ~fleet[2].waited /\ fleet[2].proc = "running"
    /\ execRunning["log"] = 1

\* ---------------------------------------------------------------- the span
\* C24: the span NewCommand opens is ended exactly once: by NewCommand itself,
\* with the returned error, when the launch fails; otherwise at the end of the
\* single wait, with the classified outcome, whether a Read at end-of-stream
\* or a Close ran it, and not before.  It is never ended twice, and cancel()
\* of the invocation's context is called exactly once, by the failed launch or
\* when the wait completes.
C24_SpanEndedOnce ==
    /\ spanEnds <= 1 /\ cancelCalls <= 1
    /\ (span = "ended") <=> (spanEnds = 1)
    /\ (span = "none") <=> (ncState = "new" \/ ncErr.kind \in ValidationErrorKinds)
    /\ LaunchFailed =>
        /\ span = "ended" /\ spanErr = ncErr
        /\ cancelCalls = 1
    /\ (ncReader /\ ~waitOnce) =>
        /\ span = "open" /\ spanEnds = 0
        /\ cancelCalls = 0
    /\ waitOnce =>
        /\ span = "ended" /\ spanErr = rcErr
        /\ cancelCalls = 1
        /\ timeoutInstalled => ctxErr # Nil

\* A failed command under the default timeout was waited for by a Read at
\* end-of-stream and closed twice afterwards: one span end, one cancel.
C24_Witness ==
    /\ waitOnce
    /\ nEofRead = 1 /\ nClose = 2
    /\ timeoutInstalled
    /\ IsCommandFailed(rcErr)
    /\ span = "ended" /\ spanEnds = 1 /\ spanErr = rcErr
    /\ cancelCalls = 1

\* What belongs to invocation j: its process, reader and memoized outcome,
\* Err() of its context, the bytes in its stdout pipe, its stderr buffer.
View(j) ==
    [inv |-> fleet[j], ctxErr |-> CtxErrOf(j),
     stdout |-> fleetPipe[fleet[j].stdout], stderr |-> fleetBuf[fleet[j].stderr]]

\* A step of invocation i: its NewCommand, a step of its process, the expiry
\* of its timeout, its kill, a Read or a Close on its reader.
FleetOn(i) ==
    \/ FleetNewCommand(i)
    \/ FleetProcWrite(i)
    \/ FleetProcExit(i)
    \/ FleetTimeout(i)
    \/ FleetCmdCancel(i)
    \/ FleetRead(i)
    \/ FleetClose(i)

\* C25: a step of one invocation (launch, process output or exit, timeout,
\* kill, Read, Close with its wait) leaves the process, the stdout pipe, the
\* stderr buffer, the context and the memoized outcome of every other
\* invocation as they were, and signals no process of another invocation;
\* what it changes outside itself is the metrics registry, the corruption
\* marker store and its log, and its own entry in the process table.
C25_InvocationsIsolated ==
    [][\A i \in Invocations :
        FleetOn(i) =>
            /\ \A j \in Invocations \ {i} : View(j)' = View(j)
            /\ \A j \in Invocations \ {i} : FleetPid(j) \notin signalled' \ signalled
            /\ \A p \in DOMAIN pgid : p \in DOMAIN pgid' /\ pgid'[p] = pgid[p]
            /\ DOMAIN pgid' \subseteq DOMAIN pgid \cup {FleetPid(i)}
            /\ soloVars' = soloVars]_vars

\* Two commands were running under their own timeouts; the first timed out,
\* was killed and closed, the second still runs under a live context.
C25_Witness ==
    /\ fleet[1].waited
    /\ fleet[1].rcErr = CtxDeadlineExceeded
    /\ fleet[1].exitCode = -1
    /\ signalled = {FleetPid(1)}
    /\ fleet[2].reader /\ fleet[2].proc = "running" /\ fleet[2].wrote
    /\ CtxErrOf(2) = Nil
    /\ fleetPipe[fleet[2].stdout] = "a"
    /\ execRunning[fleet[2].sub] = 1

\* ------------------------------------------------------------ sample rates
\* A caller is internal when its actor is flagged internal or has UID 0.
CallerInternal(a) == a.Internal \/ a.UID = 0

\* The rates as stated.
StatedRate(cmd, internal) ==
    IF internal /\ cmd \in {"rev-parse", "rev-list", "config"} THEN 16384
    ELSE IF internal THEN 16
    ELSE 8

\* C26: HoneySampleRate gives 16384 to internal callers of rev-parse, rev-list
\* and config, 16 to internal callers of any other subcommand and 8 to every
\* other caller, whatever else holds of the invocation; the event rc.trace
\* builds carries that rate; and for every subcommand the rate of an internal
\* caller is at least that of an external one.
C26_SampleRate ==
    /\ \A c \in MetricLabels, a \in Actors :
        HoneySampleRate(c, a) = StatedRate(c, CallerInternal(a))
    /\ \A c \in MetricLabels, a, b \in Actors :
        (CallerInternal(a) /\ ~CallerInternal(b)) =>
            HoneySampleRate(c, a) >= HoneySampleRate(c, b)
    /\ event # NoEvent =>
        event.sampleRate = StatedRate(subcommand, CallerInternal(actor))

\* The event of a git config run by an actor that is not flagged internal
\* and has no UID carries the rate 16384.
C26_Witness ==
    /\ event # NoEvent
    /\ subcommand = "config"
    /\ actor = Actor(FALSE, 0)
    /\ event.sampleRate = 16384
    /\ eventsSent = 1

\* ------------------------------------------------------------ high memory
\* C27: the high-memory threshold is disabled: whatever peak memory the
\* operating system reports for the process, below or above 500 MiB, in KiB
\* as on Linux or in bytes as on darwin, the high-memory counter of every
\* subcommand stays zero, no high-memory warning is logged, and high memory
\* never is what causes an event to be built.
C27_HighMemoryDisabled ==
    /\ \A c \in MetricLabels : highMemoryCounter[c] = 0
    /\ highMemWarnings = 0
    /\ (waitOnce /\ ~honeyEnabled /\ ~isSlow(traceDuration, subcommand)) =>
            event = NoEvent
    /\ event # NoEvent =>
            mulKiB(event.cmd_ru_maxrss_kib) = rssToByteSize(maxrss, goos)

\* A command whose peak memory Linux reported as 600000 KiB, which is more
\* than 500 MiB, was waited for: no count, no warning, no event.
C27_Witness ==
    /\ waitOnce
    /\ goos = "linux" /\ maxrss = Int64(600000)
    /\ Less64(Int64(highMemoryUsageThreshold), rssToByteSize(maxrss, goos))
    /\ ~honeyEnabled
    /\ traceDuration = 0
    /\ event = NoEvent
    /\ highMemoryCounter[subcommand] = 0

\* ------------------------------------------------------ mutex and blocking
\* Thread t is inside Read or Close, past rc.mu.Lock().
InCall(t) == pc[t] \in {"rStdout", "rWait", "rFinish", "cWait", "cFinish"}

\* Thread u is in Read, blocked in rc.stdout.Read on an empty pipe of a
\* process that still runs.
ReadBlocked(u) ==
    /\ pc[u] = "rStdout"
    /\ pipeBuf = ""
    /\ ~pipeReadClosed
    /\ procState = "running"

\* Thread t has issued Close and is blocked in rc.mu.Lock() behind the blocked
\* Read of another thread.
CloseBehindBlockedRead(t) ==
    /\ pc[t] = "cLock"
    /\ \E u \in Threads \ {t} : ReadBlocked(u)

\* Thread t has returned from Close.
ClosedBy(t) == pc[t] = "idle" /\ ret[t].op = "Close"

\* C28: Read and Close are mutually exclusive and do not deadlock.  At most
\* one thread is inside Read or Close, and it is the holder of rc.mu, also
\* while it is in waitCmd (which takes no lock of its own); a thread blocked
\* in rc.mu.Lock() is not the holder.  Every call that holds the mutex
\* returns and releases it; a Close issued while the Read of another thread is
\* blocked on stdout returns, and by then the process has exited.
C28_ExclusiveNoDeadlock ==
    /\ [](\A t \in Threads :
            /\ InCall(t) <=> mu = t
            /\ pc[t] = "cLock" => mu # t)
    /\ [](Cardinality({t \in Threads : InCall(t)}) <= 1)
    /\ \A t \in Threads : InCall(t) ~> (pc[t] = "idle" /\ mu # t)
    /\ \A t \in Threads : (pc[t] = "cLock") ~> ClosedBy(t)
    /\ \A t \in Threads :
        CloseBehindBlockedRead(t) ~> (ClosedBy(t) /\ procState = "exited")

\* A Close is blocked in rc.mu.Lock() behind a Read that is blocked on the
\* stdout of a hanging process; the context is still live.
C28_Witness ==
    \E t \in Threads :
        /\ CloseBehindBlockedRead(t)
        /\ mu \in Threads \ {t}
        /\ procHangs
        /\ ctxErr = Nil
        /\ killSignals = 0

\* ------------------------------------------------- order inside the wait
\* C29: inside the once-body the classification precedes the recording, the
\* end of the span and the cancel of the invocation's own context.  The event,
\* the span and the memoized error all carry the classified outcome, the
\* duration has been observed and the cancel function called once; and when
\* the process failed on its own, the context was live at the classification
\* and stderr matched no corruption pattern, the outcome is a
\* CommandFailedError around the error of Wait, although the invocation's own
\* context is canceled by now.
C29_ClassifyBeforeOwnCancel ==
    /\ waitOnce =>
        /\ spanErr = rcErr
        /\ span = "ended"
        /\ event # NoEvent => event.error = rcErr
        /\ execDurationObs = 1
        /\ cancelCalls = 1
        /\ (timeoutInstalled => ctxErr # Nil)
    /\ (WaitFailed /\ ctxAtWait = Nil /\ ~matchAtWait) =>
        /\ IsCommandFailed(rcErr)
        /\ rcErr.Inner = waitErr
        /\ rcErr # CtxCanceled
        /\ rcErr # CtxDeadlineExceeded
    /\ ~waitOnce => (cancelCalls = 0 \/ ~ncReader)

\* A process that exited with status 1 under a context without caller
\* deadline: the call returned CommandFailedError and the own cancel has made
\* the context canceled.
C29_Witness ==
    /\ WaitFailed
    /\ ctxAtWait = Nil
    /\ ~matchAtWait
    /\ timeoutInstalled
    /\ ctxErr = CtxCanceled
    /\ IsCommandFailed(rcErr)
    /\ killSignals = 0
    /\ \E t \in Threads : Returned(t, rcErr)

\* ------------------------------------------------------- Close and the kill
\* Thread t is inside Close, past rc.mu.Lock().
InClose(t) == pc[t] \in {"cWait", "cFinish"}

\* This step is taken by thread t in Close: it enters Close, moves on in it
\* or returns from it.
CloseActs(t) ==
    /\ pc'[t] # pc[t]
    /\ InClose(t) \/ pc'[t] \in {"cWait", "cFinish"}

\* C30: Close never terminates a running subprocess itself.  A step of Close
\* leaves the process and the signals alone and changes the context only at
\* the end of the wait step, when cmd.Wait has returned; the cancel function
\* of a launched invocation is called only after cmd.Wait has returned; the
\* kill is sent by no step of Read or Close, only under a context that the
\* caller canceled or whose deadline has passed, and before any cancel of the
\* invocation's own; and Close returns only when the process has exited and
\* has been waited for.
C30_CloseNeverKills ==
    [][/\ \A t \in Threads :
            CloseActs(t) =>
                /\ procState' = procState
                /\ killSignals' = killSignals
                /\ signalled' = signalled
                /\ ctxErr' # ctxErr =>
                    (pc[t] = "cFinish" /\ waitCount = 1 /\ procState = "exited")
       /\ (ncReader /\ cancelCalls' # cancelCalls) =>
            (waitCount = 1 /\ procState = "exited" /\ cancelCalls = 0)
       /\ killSignals' # killSignals =>
            /\ pc' = pc
            /\ cancelCalls = 0
            /\ waitCount = 0
            /\ ctxErr \in {CtxCanceled, CtxDeadlineExceeded}
            /\ ctxErr = CtxDeadlineExceeded => clock = ctxDeadline
       /\ \A t \in Threads :
            (InClose(t) /\ pc'[t] = "idle") =>
                (procState = "exited" /\ waitCount = 1 /\ ret'[t].op = "Close")
      ]_vars

\* A Close was issued while the process hangs: it is blocked in the wait, the
\* process runs on, no signal has been sent and the context is live.
C30_Witness ==
    \E t \in Threads :
        /\ pc[t] = "cWait"
        /\ mu = t
        /\ procHangs
        /\ procState = "running"
        /\ killSignals = 0
        /\ cancelCalls = 0
        /\ ctxErr = Nil

\* ------------------------------------------ the heuristic and a clean exit
\* C31: the corruption heuristic runs only when cmd.Wait reported a failure,
\* and the marker is written at most once per invocation.  A marker write
\* implies a failed wait whose stderr matched and the outcome
\* ErrRepoCorrupted; after a wait that reported no failure the outcome is nil,
\* nothing matched, no marker was written and no write failure logged,
\* whatever stderr holds, and every Close returned nil; before the wait there
\* is no marker write; and repeated calls leave the count at one.
C31_HeuristicOnlyOnFailure ==
    /\ markerWrites <= 1
    /\ markerWrites = 1 =>
        /\ WaitFailed
        /\ matchAtWait
        /\ rcErr = ErrRepoCorrupted(stderrBuf)
    /\ (waitOnce /\ waitErr = Nil) =>
        /\ rcErr = Nil
        /\ ~matchAtWait
        /\ markerWrites = 0
        /\ markerErrLogged = 0
        /\ markerCall = NoCall
        /\ \A t \in Threads : ret[t].op = "Close" => ret[t].err = Nil
    /\ ~waitOnce => (markerWrites = 0 /\ markerCall = NoCall)

\* The process exited with status 0 after writing a line that matches a
\* corruption pattern; Close has returned nil twice and no marker was written.
C31_Witness ==
    /\ waitOnce
    /\ waitErr = Nil
    /\ exitCode = 0
    /\ nClose = 2
    /\ rcErr = Nil
    /\ markerWrites = 0
    /\ \A t \in Threads : ret[t].op = "Close" /\ ret[t].err = Nil
    /\ stderrBuf = "error: Could not read abc123"
    /\ stdErrIndicatesCorruption(stderrBuf)

\* ------------------------------------------------- what triggers the wait
\* Thread t returns from Read straight after rc.stdout.Read, without waitCmd.
ReadPassesThrough(t) == pc[t] = "rStdout" /\ pc'[t] = "idle"

\* C32: the wait is triggered only by a Read whose rc.stdout.Read returned
\* io.EOF or by Close.  A Read that returns bytes, or the error of a closed
\* pipe, returns just that and changes nothing of the invocation: the once,
\* the memoized outcome, the gauge, the span, the observations, the event, the
\* context and the marker stay as they are.  A thread enters waitCmd from Read
\* only at end-of-stream of an exited process, cmd.Wait runs only for a
\* thread in waitCmd, and as long as cmd.Wait has not run the gauge still
\* counts the invocation, the span is open and no outcome is memoized.
C32_WaitOnlyAtEofOrClose ==
    /\ []((ncReader /\ waitCount = 0) =>
            /\ execRunning[subcommand] = 1
            /\ span = "open"
            /\ execDurationObs = 0
            /\ rcErr = Nil
            /\ ~waitOnce)
    /\ [][/\ \A t \in Threads :
                ReadPassesThrough(t) =>
                    /\ UNCHANGED <<waitOnce, waitCount, rcErr, obsVars, traceVars,
                                   cancelCalls, ctxErr, markerVars, procVars,
                                   pipeReadClosed, waitVars>>
                    /\ ret'[t].op = "Read"
                    /\ ~ret'[t].eof
                    /\ \/ /\ ret'[t].err = Nil
                          /\ ret'[t].n > 0
                          /\ pipeBuf = SubSeq(got'[t], Len(got[t]) + 1, Len(got'[t]))
                                        \o pipeBuf'
                          /\ Len(got'[t]) = Len(got[t]) + ret'[t].n
                       \/ /\ ret'[t].err = ErrClosed
                          /\ ret'[t].n = 0
                          /\ pipeReadClosed
                          /\ got' = got
          /\ \A t \in Threads :
                (pc'[t] = "rWait" /\ pc[t] # "rWait") =>
                    /\ pc[t] = "rStdout"
                    /\ pipeBuf = ""
                    /\ ~pipeReadClosed
                    /\ procState = "exited"
          /\ waitCount' # waitCount =>
                \E t \in Threads : pc[t] \in {"rWait", "cWait"} /\ mu = t
         ]_vars

\* A Read has returned the two bytes of an exited process: the invocation is
\* not waited for, the gauge counts it and the span is open.
C32_Witness ==
    \E t \in Threads :
        /\ pc[t] = "idle"
        /\ ret[t].op = "Read"
        /\ ret[t].n = 2
        /\ ret[t].err = Nil
        /\ got[t] = "ab"
        /\ procState = "exited"
        /\ waitCount = 0
        /\ ~waitOnce
        /\ execRunning[subcommand] = 1
        /\ span = "open"

\* ------------------------------------------------------------ whole tokens
\* The tokens argsFromArguments built, behind the program name.
BuiltTokens == Tail(cmdArgs)

\* The tokens one argument contributes: two for a ConfigArgument, one for
\* every other argument, each value whole.
Contribution(a) ==
    IF IsConfig(a) THEN <<"-c", a.Key \o "=" \o a.Value>> ELSE <<TokenOf(a)>>

\* The number of ConfigArguments of the list, and of its other arguments.
NumConfig(args) == Cardinality({i \in 1..Len(args) : IsConfig(args[i])})

NumOther(args) == Cardinality({i \in 1..Len(args) : IsOther(args[i])})

\* The position in BuiltTokens of the first token of the argument at index i.
TokenPosition(args, i) ==
    LET configsBefore == Cardinality({j \in 1..(i - 1) : IsConfig(args[j])})
        othersBefore  == Cardinality({j \in 1..(i - 1) : IsOther(args[j])})
    IN  IF IsConfig(args[i]) THEN 2 * configsBefore + 1
        ELSE 2 * NumConfig(args) + 1 + othersBefore + 1

\* NewCommand has built the token list of its arguments.
TokensBuilt == ncState = "returned" /\ ncErr.kind \notin ValidationErrorKinds

\* C33: every argument contributes a fixed number of whole tokens.  A built
\* list has 2 * (number of ConfigArguments) + 1 + (number of other arguments)
\* tokens; the contribution of every argument stands at its position
\* unchanged, blanks and '=' included, so no value is split or merged with a
\* neighbour; and no token that comes from a SpecSafeValueArgument begins with
\* '-'.  A list is built exactly for the argument lists that pass validation,
\* and a rejected list leaves no tokens.
C33_WholeTokens ==
    /\ TokensBuilt =>
        /\ PassesValidation(arguments)
        /\ cmdArgs[1] = "git"
        /\ Len(BuiltTokens) = 2 * NumConfig(arguments) + 1 + NumOther(arguments)
        /\ NumConfig(arguments) + NumOther(arguments) = Len(arguments)
        /\ BuiltTokens[2 * NumConfig(arguments) + 1] = subcommand
        /\ \A i \in 1..Len(arguments) :
            LET a   == arguments[i]
                pos == TokenPosition(arguments, i)
            IN  /\ SubSeq(BuiltTokens, pos, pos + Len(Contribution(a)) - 1)
                        = Contribution(a)
                /\ a.type = "SpecSafeValueArgument" =>
                    /\ BuiltTokens[pos] = a.string
                    /\ ~HasPrefix(BuiltTokens[pos], "-")
    /\ (ncState = "returned" /\ ~PassesValidation(arguments)) =>
        (ncErr.kind \in ValidationErrorKinds /\ cmdArgs = <<>>)

\* A list of three arguments whose values hold blanks was built into five
\* tokens, the spec "HEAD -rf" being one of them.
C33_Witness ==
    /\ TokensBuilt
    /\ arguments = <<SpecSafeValueArgument("HEAD -rf"),
                     ConfigArgument("user.name", "a b"),
                     ValueFlagArgument("--format", "%H %s")>>
    /\ cmdArgs = <<"git", "-c", "user.name=a b", "log", "HEAD -rf", "--format=%H %s">>

\* --------------------------------------------- classification and the cap
\* The texts with which a corruption-signature line begins.
Signatures ==
    { "error: Could not read ",
      "error: packfile ",
      "fatal: commit-graph requires overflow generation data but has none" }

\* The positions of s at which a line begins with the signature sig.
SignatureStarts(s, sig) ==
    {i \in LineStarts(s) : HasPrefix(SubSeq(s, i, Len(s)), sig)}

\* Every signature line of s starts behind its first limit bytes, and there
\* is one.
SignatureOnlyBehind(s, limit) ==
    /\ \E sig \in Signatures : SignatureStarts(s, sig) # {}
    /\ \A sig \in Signatures : \A i \in SignatureStarts(s, sig) : i > limit

\* Some signature of s lies within its first limit bytes.
SignatureWithin(s, limit) ==
    \E sig \in Signatures :
        \E i \in SignatureStarts(s, sig) : i + Len(sig) - 1 <= limit

\* C34: the classification sees only the bounded capture.  When a failing
\* process wrote more than 1024 bytes to stderr and every signature line
\* starts behind the first 1024 bytes, the outcome is a CommandFailedError or
\* the error of the context and no marker is written; when a signature lies
\* within the first 1024 bytes the outcome is ErrRepoCorrupted with the
\* capture as reason and the marker is written once, whatever follows.
C34_ClassificationSeesCapture ==
    /\ (WaitFailed /\ Len(Written) > maxStderrCapture
            /\ SignatureOnlyBehind(Written, maxStderrCapture)) =>
        /\ ~stdErrIndicatesCorruption(stderrBuf)
        /\ IsCommandFailed(rcErr) \/ rcErr \in {CtxCanceled, CtxDeadlineExceeded}
        /\ IsCommandFailed(rcErr) => rcErr.Stderr = stderrBuf
        /\ markerWrites = 0
    /\ (WaitFailed /\ SignatureWithin(Written, maxStderrCapture)) =>
        /\ rcErr = ErrRepoCorrupted(stderrBuf)
        /\ stderrBuf = FirstBytes(Written, maxStderrCapture)
        /\ markerWrites = 1

\* The process wrote 1024 bytes and then a packfile error line and exited
\* with status 1: the outcome is a CommandFailedError with the 1024 bytes.
C34_Witness ==
    /\ WaitFailed
    /\ procStderr = <<x1020, "xxx\n", "error: packfile p is bad\n">>
    /\ errPos = 3
    /\ Len(stderrBuf) = 1024
    /\ IsCommandFailed(rcErr)
    /\ rcErr.Stderr = stderrBuf
    /\ markerWrites = 0
    /\ killSignals = 0

\* ------------------------------------------------------------------ options
\* The positions of the option functions of the given name in the call.
OptionsNamed(name) == {i \in 1..Len(optFns) : optFns[i].name = name}

\* The last option function of the given name; there is one.
LastOption(name) ==
    optFns[CHOOSE i \in OptionsNamed(name) : \A j \in OptionsNamed(name) : j <= i]

\* What the last writer of each setting leaves: the arguments, the stdin
\* source and the environment list, or nothing when the option was not
\* passed.
LastArguments ==
    IF OptionsNamed("WithArguments") = {} THEN <<>>
    ELSE LastOption("WithArguments").args

LastStdin ==
    IF OptionsNamed("WithStdin") = {} THEN NoStdin
    ELSE LastOption("WithStdin").stdin

LastEnv ==
    IF OptionsNamed("WithEnv") = {} THEN NilEnv
    ELSE LastOption("WithEnv").env

\* C35: stdin is wired to the process only if the caller supplied a source
\* with WithStdin, and the options are last-writer-wins.  The tokens are
\* those of the last WithArguments alone, no earlier list is appended; a
\* process that was started reads from the source of the last WithStdin, and
\* has no stdin wired when none was passed or the last one passed nil; the
\* environment is that of the gateway followed by the list of the last
\* WithEnv, and is left unset when none was passed or the last one was empty.
C35_OptionsLastWriterWins ==
    TokensBuilt =>
        /\ arguments = LastArguments
        /\ cmdArgs = <<"git">> \o argsFromArguments(subcommand, LastArguments).args
        /\ Len(cmdArgs) = 2 + Len(LastArguments) + NumConfig(LastArguments)
        /\ cmdEnv = (IF LastEnv = NilEnv THEN NilEnv ELSE osEnviron \o LastEnv)
        /\ startCalls = 1 => cmdStdin = LastStdin
        /\ cmdStdin # NoStdin =>
            /\ OptionsNamed("WithStdin") # {}
            /\ cmdStdin = LastStdin
            /\ startCalls = 1
        /\ OptionsNamed("WithStdin") = {} => cmdStdin = NoStdin

\* Two argument lists and two stdin sources were passed: the process runs
\* with the tokens of the second list and reads from the second source.
C35_Witness ==
    /\ ncReader
    /\ optFns = <<WithArguments(<<SpecSafeValueArgument("HEAD"),
                                  ConfigArgument("gc.auto", "0")>>),
                  WithArguments(<<FlagArgument("--all")>>),
                  WithStdin("r2")>>
    /\ cmdArgs = <<"git", "log", "--all">>
    /\ cmdStdin = "r2"
    /\ cmdEnv = NilEnv

\* ------------------------------------------------------------ peak memory
\* rss * 1024 fits an int64: 0 <= rss < 2^53.
FitsTimesKiB(rss) == ~IsNegative64(rss) /\ rss[1] < 32

\* x is a multiple of 1024.
IsWholeKiB(x) == x[4] % 1024 = 0

\* C36: rssToByteSize has one rule per platform: on darwin the result is rss,
\* on every other platform it is rss * 1024, that is the multiple of 1024
\* whose quotient by 1024 is rss, as long as the product fits 64 bits.  The
\* KiB value of the event is the byte count divided by 1024: on Linux, and on
\* every platform but darwin, it is the raw value for every rss from 0 to
\* 2^53 - 1; on darwin it is rss / 1024, the number of whole KiB in rss, so
\* that 600000 * 1024 bytes are reported as 600000 KiB and 1023 bytes as 0.
C36_PeakMemoryNormalized ==
    /\ rssToByteSize(maxrss, "darwin") = maxrss
    /\ \A os \in {"linux", "freebsd", "windows"} :
        /\ rssToByteSize(maxrss, os) = rssToByteSize(maxrss, "linux")
        /\ FitsTimesKiB(maxrss) =>
            /\ ~IsNegative64(rssToByteSize(maxrss, os))
            /\ IsWholeKiB(rssToByteSize(maxrss, os))
            /\ divKiB(rssToByteSize(maxrss, os)) = maxrss
    /\ (waitOnce /\ event # NoEvent) =>
        /\ event.cmd_ru_maxrss_kib = divKiB(rssToByteSize(maxrss, goos))
        /\ (goos # "darwin" /\ FitsTimesKiB(maxrss)) =>
                event.cmd_ru_maxrss_kib = maxrss
        /\ goos = "darwin" =>
            /\ ~IsNegative64(event.cmd_ru_maxrss_kib)
            /\ mulKiB(event.cmd_ru_maxrss_kib)
                    = <<maxrss[1], maxrss[2], maxrss[3], maxrss[4] - (maxrss[4] % 1024)>>
            /\ maxrss = Int64(600000 * 1024) =>
                    event.cmd_ru_maxrss_kib = Int64(600000)
            /\ maxrss = Int64(1023) => event.cmd_ru_maxrss_kib = Int64(0)
            /\ maxrss = Int64(1025) => event.cmd_ru_maxrss_kib = Int64(1)

\* Linux reported 2^53 - 1 KiB, the largest value whose byte count fits: the
\* event carries 2^53 - 1.
C36_Witness ==
    /\ waitOnce
    /\ event # NoEvent
    /\ goos = "linux"
    /\ maxrss = <<31, 65535, 65535, 65535>>
    /\ rssToByteSize(maxrss, goos) = <<32767, 65535, 65535, 64512>>
    /\ event.cmd_ru_maxrss_kib = maxrss

====
